---------------------------- MODULE Spec2Model ----------------------------
(***************************************************************************)
(* BookFinder: edition resolution (BookISBNLookup.find_all_isbns), the     *)
(* buy-back prober (BoekenbalieAPI + BookProfitabilityChecker.check_book)  *)
(* and the streaming pipeline (app.py analyze.generate).                   *)
(*                                                                         *)
(* Three state machines share this module:                                 *)
(*   SpecResolver  find_all_isbns applied to two catalog responses         *)
(*   SpecLimiter   BoekenbalieAPI._wait_for_rate_limit under a clock       *)
(*   Spec          one run of analyze.generate                             *)
(*                                                                         *)
(* Python's None is the empty tuple <<>>, a present value x is <<x>>.      *)
(* Money is in whole euros; the buy-back API quotes minor units (cents).   *)
(***************************************************************************)
EXTENDS Integers, Sequences, FiniteSets, TLC

VARIABLES
    \* --- resolver harness (find_all_isbns) ---
    rpc,            \* "build" while the catalog responses are assembled, "returned" after the call
    rTitle, rAuthor,\* arguments of find_all_isbns
    resp1, resp2,   \* catalog responses of pass 1 (langRestrict=nl) and pass 2 (unrestricted)
    rResult,        \* what find_all_isbns returned
    \* --- one run of analyze.generate ---
    pc,             \* position in generate()
    purchase_price, \* the request's purchase_price (euros)
    token,          \* load_token(): TRUE when a buy-back token is configured
    detected,       \* what the detector returned
    i,              \* detections handled by the ISBN loop so far
    books_with_isbn,\* the resolved books
    j,              \* resolved books handled by the pricing loop so far
    edition_results,\* the probe results of the book being priced
    profitable,     \* the BookEntry list
    events,         \* the events yielded so far, in order
    probes,         \* the check_book calls made so far, in order
    lookups,        \* the number of editions each find_all_isbns call returned, in order
    exchange,       \* the buy-back answers of the latest check_book call on the current book
    err,            \* the exception that ended the run ("" when none)
    done,           \* the payload of the 'done' event
    request,        \* the analyze request: its image part and its purchase_price field
    attempts,       \* the outcomes of the generate_content calls of the detector call, until it is reported
    filepath,       \* the uploaded image on disk: "unsaved", "saved" or "unlinked"
    \* --- one BoekenbalieAPI instance under a clock ---
    now,                    \* time.time(), in seconds
    rate_limit_delay,       \* constructor argument
    max_requests_per_minute,\* constructor argument
    last_request_time,
    request_timestamps,
    total_requests,
    released,               \* the times at which _wait_for_rate_limit let a request go, in order
    waited,                 \* the clock may pass between two calls once
    api_return,             \* what the last API call returned
    \* --- two analyze requests served at once ---
    runs,                   \* each request's own state: its locals and its BoekenbalieAPI
    files,                  \* the uploads folder: path -> the image stored there (None: no file)
    \* --- one _validate_books call ---
    raw,                    \* the decoded JSON array the detector's model answered
    validated               \* what _validate_books returned (None: not called yet)

resolverVars == <<rpc, rTitle, rAuthor, resp1, resp2, rResult>>

pipeVars == <<pc, purchase_price, token, detected, i, books_with_isbn, j,
              edition_results, profitable, events, probes, lookups, exchange, err, done,
              request, attempts, filepath>>

limiterVars == <<now, rate_limit_delay, max_requests_per_minute, last_request_time,
                 request_timestamps, total_requests, released, waited, api_return>>

runVars == <<runs, files>>

validatorVars == <<raw, validated>>

vars == <<resolverVars, pipeVars, limiterVars, runVars, validatorVars>>

\* ------------------------------------------------------------------ bounds
MaxItems == 3       \* catalog items over the two responses of one find_all_isbns call
MaxBooks == 2       \* detections the detector returns in one run
MaxRequests == 4    \* API calls on one BoekenbalieAPI instance
MaxRaw == 2         \* items of the array handed to _validate_books

\* ------------------------------------------------------------- Python values
None == <<>>
Some(x) == <<x>>
Val(o) == o[1]
\* Python's `a or b` on optional strings: a when it is present, else b.
PyOr(a, b) == IF a # None THEN a ELSE b

\* ------------------------------------------------- catalog (Google Books)
\* One raw volume record of a catalog response, reduced to the fields
\* find_all_isbns reads.  `malformed` stands for an industryIdentifiers entry
\* without an 'identifier' key: reading x['identifier'] raises KeyError.
Item(ebook, ptype, i13, i10, lang, pub, bad) ==
    [isEbook |-> ebook, printType |-> ptype, isbn_13 |-> i13, isbn_10 |-> i10,
     language |-> lang, publisher |-> pub, malformed |-> bad]

Physical(isbn, lang, pub) == Item(FALSE, "BOOK", Some(isbn), None, lang, pub, FALSE)

RawItems ==
    { Physical("A", l, p) : l \in {"nl", "en"}, p \in {"P1", "P2"} }
    \cup { Physical(n, l, "P1") : n \in {"B", "C"}, l \in {"nl", "en"} }
    \cup { Item(FALSE, "BOOK", Some("A"), Some("B"), "en", "P1", FALSE),   \* both identifiers
           Item(FALSE, "BOOK", None, Some("A"), "nl", "P2", FALSE),        \* ISBN-10 only
           Item(TRUE, "BOOK", Some("A"), None, "nl", "P3", FALSE),         \* e-book
           Item(FALSE, "MAGAZINE", Some("B"), None, "nl", "P3", FALSE),    \* not a book
           Item(FALSE, "BOOK", None, None, "nl", "P3", FALSE),             \* no identifier
           Item(FALSE, "BOOK", Some("B"), None, "nl", "P3", TRUE) }        \* raises KeyError

\* A catalog response: HTTP status (0: the request itself raised) and the items.
Response(status, items) == [status |-> status, items |-> items]

Edition(item, isbn) ==
    [isbn |-> isbn, isbn_13 |-> item.isbn_13, isbn_10 |-> item.isbn_10,
     publisher |-> item.publisher, language |-> item.language]

\* FetchItems without the `isbn in seen` test.
RECURSIVE FetchItemsNoSeen(_, _)
FetchItemsNoSeen(items, acc) ==
    IF items = <<>> THEN acc
    ELSE LET item == Head(items)
             isbn == PyOr(item.isbn_13, item.isbn_10)
         IN  IF item.isEbook THEN FetchItemsNoSeen(Tail(items), acc)
             ELSE IF item.printType # "BOOK" THEN FetchItemsNoSeen(Tail(items), acc)
             ELSE IF item.malformed THEN acc
             ELSE IF isbn = None THEN FetchItemsNoSeen(Tail(items), acc)
             ELSE FetchItemsNoSeen(Tail(items),
                             [seen |-> acc.seen \cup {Val(isbn)},
                              editions |-> Append(acc.editions, Edition(item, Val(isbn)))])

\* The body of the `for item in data.get('items', [])` loop of _fetch, folded
\* over the items; acc is [seen, editions].  An exception leaves the loop and
\* is swallowed by the except clause: what was collected so far stays.
RECURSIVE FetchItems(_, _)
FetchItems(items, acc) ==
    IF items = <<>> THEN acc
    ELSE LET item == Head(items)
             isbn == PyOr(item.isbn_13, item.isbn_10)
         IN  IF item.isEbook THEN FetchItems(Tail(items), acc)
             ELSE IF item.printType # "BOOK" THEN FetchItems(Tail(items), acc)
             ELSE IF item.malformed THEN acc
             ELSE IF isbn = None \/ Val(isbn) \in acc.seen THEN FetchItems(Tail(items), acc)
             ELSE FetchItems(Tail(items),
                             [seen |-> acc.seen \cup {Val(isbn)},
                              editions |-> Append(acc.editions, Edition(item, Val(isbn)))])

\* _fetch without its try/except: a request that raises (status 0) is not
\* caught.
FetchNoTry(resp, acc) ==
    IF resp.status = 0 THEN [acc |-> acc, raised |-> TRUE]
    ELSE IF resp.status # 200 THEN [acc |-> acc, raised |-> FALSE]
    ELSE [acc |-> FetchItems(resp.items, acc), raised |-> FALSE]

\* _fetch: a non-200 response adds nothing, and neither does a request that
\* raised; whatever is raised inside is caught, so nothing reaches the
\* caller (raised is FALSE).
Fetch(resp, acc) ==
    IF resp.status # 200
    THEN [acc |-> acc, raised |-> FALSE]
    ELSE [acc |-> FetchItems(resp.items, acc), raised |-> FALSE]

IsDutch(e) == e.language = "nl"
IsOther(e) == e.language # "nl"

\* DutchFirst with the two groups swapped.
OthersFirst(editions) == SelectSeq(editions, IsOther) \o SelectSeq(editions, IsDutch)

\* The final ordering of find_all_isbns: dutch + others.
DutchFirst(editions) == SelectSeq(editions, IsDutch) \o SelectSeq(editions, IsOther)

\* The search terms of the query: intitle: when there is a title,
\* inauthor: when there is an author.
query_parts(title, author) ==
    (IF title # "" THEN << <<"intitle", title>> >> ELSE <<>>)
        \o (IF author # "" THEN << <<"inauthor", author>> >> ELSE <<>>)

Query(parts, langRestrict) == [q |-> parts, langRestrict |-> langRestrict]

\* The two passes of find_all_isbns against the catalog responses r1 (Dutch
\* pass) and r2 (unrestricted pass), and the final ordering.  `queries`
\* lists the catalog requests issued; an exception out of _fetch would end
\* the call there.
run_passes(parts, r1, r2) ==
    LET acc0 == [seen |-> {}, editions |-> <<>>]
        f1 == Fetch(r1, acc0)
        f2 == Fetch(r2, f1.acc)
    IN  IF f1.raised
        THEN [editions |-> <<>>, queries |-> <<Query(parts, Some("nl"))>>, raised |-> TRUE]
        ELSE IF f2.raised
        THEN [editions |-> <<>>,
              queries |-> <<Query(parts, Some("nl")), Query(parts, None)>>,
              raised |-> TRUE]
        ELSE [editions |-> DutchFirst(f2.acc.editions),
              queries |-> <<Query(parts, Some("nl")), Query(parts, None)>>,
              raised |-> FALSE]

NoLookup == [editions |-> <<>>, queries |-> <<>>, raised |-> FALSE]

\* find_all_isbns that returns at once whenever the title is empty.
find_all_isbns_title_required(title, author, r1, r2) ==
    IF title = "" THEN NoLookup
    ELSE run_passes(query_parts(title, author), r1, r2)

\* find_all_isbns(title, author): the empty list at once when there is no
\* search term, else the two passes.
find_all_isbns(title, author, r1, r2) ==
    IF query_parts(title, author) = <<>> THEN NoLookup
    ELSE run_passes(query_parts(title, author), r1, r2)

\* --------------------------------------------- buy-back API (BoekenbalieAPI)
\* An HTTP answer of the buy-back service: status (0: the request raised) and
\* the decoded JSON body.  The interest body is a dict with 'interested' and
\* 'book_id' (kind "dict") or some other truthy JSON value (kind "list").
Http(status, body) == [status |-> status, body |-> body]

InterestBody(kind, interested, book_id) ==
    [kind |-> kind, interested |-> interested, book_id |-> book_id]

PriceBody(price, offer_price) == [price |-> price, offer_price |-> offer_price]

NoBody == InterestBody("none", FALSE, None)

InterestHttps ==
    { Http(404, NoBody), Http(500, NoBody), Http(0, NoBody),
      Http(200, InterestBody("dict", FALSE, Some("bk"))),
      Http(200, InterestBody("dict", TRUE, Some("bk"))),
      Http(200, InterestBody("dict", TRUE, None)),
      Http(200, InterestBody("list", FALSE, None)) }

\* Prices in minor units (cents).
PriceHttps ==
    { Http(500, PriceBody(None, None)), Http(0, PriceBody(None, None)),
      Http(200, PriceBody(None, None)),
      Http(200, PriceBody(Some(100), None)),
      Http(200, PriceBody(Some(300), Some(100))),
      Http(200, PriceBody(None, Some(300))) }

\* check_interest: the JSON body on 200, None on 404, any other status or an
\* exception.
check_interest(http) ==
    IF http.status = 200 THEN Some(http.body) ELSE None

\* float(cents) / 100; the prices of PriceHttps are whole euros, so the
\* quotient is exact.
Euros(cents) == cents \div 100

\* get_price: price, else offer_price, converted to euros; None otherwise.
get_price(http) ==
    IF http.status = 200
    THEN IF http.body.price # None THEN Some(Euros(Val(http.body.price)))
         ELSE IF http.body.offer_price # None THEN Some(Euros(Val(http.body.offer_price)))
         ELSE None
    ELSE None

\* ------------------------------------- BoekenbalieAPI._wait_for_rate_limit
Window == 60        \* the seconds of the sliding window

\* time.time() is seconds since 1970: far more than a window after
\* last_request_time's initial 0.
Epoch == Window + 40

\* The clock's steps between two calls.
TimeSteps == {1, 20, 40, 59, 61}

\* time.sleep(t) returns after at least t seconds: t plus an overshoot.
Overshoots == {0, 1}

RECURSIVE SeqMin(_)
SeqMin(s) ==
    IF Len(s) = 1 THEN s[1]
    ELSE LET m == SeqMin(Tail(s)) IN IF s[1] <= m THEN s[1] ELSE m

Fresh(current_time, t) == current_time - t < Window

\* WindowWait that lets one request too many through.
WindowWaitOffByOne(current_time, stamps) ==
    IF Len(stamps) > max_requests_per_minute
    THEN LET wait_time == Window - (current_time - SeqMin(stamps))
         IN  IF wait_time > 0 THEN wait_time ELSE 0
    ELSE 0

\* The window cap: how long the call sleeps when max_requests_per_minute
\* requests are less than a window old (0: no sleep).
WindowWait(current_time, stamps) ==
    IF Len(stamps) >= max_requests_per_minute
    THEN LET wait_time == Window - (current_time - SeqMin(stamps))
         IN  IF wait_time > 0 THEN wait_time ELSE 0
    ELSE 0

\* The minimum delay: how long the call sleeps after the window cap (0: no sleep).
DelayWait(current_time) ==
    IF current_time - last_request_time < rate_limit_delay
    THEN rate_limit_delay - (current_time - last_request_time)
    ELSE 0

\* _wait_for_rate_limit that skips the minimum delay after it has slept for
\* the window.
WaitForRateLimitWindowOnly(over) ==
    LET stamps == SelectSeq(request_timestamps, LAMBDA t : Fresh(now, t))
        w1 == WindowWait(now, stamps)
        t1 == IF w1 > 0 THEN now + w1 + over ELSE now
        w2 == IF w1 > 0 THEN 0 ELSE DelayWait(t1)
        t2 == IF w2 > 0 THEN t1 + w2 + over ELSE t1
    IN  /\ now' = t2
        /\ last_request_time' = t2
        /\ request_timestamps' = Append(stamps, t2)
        /\ total_requests' = total_requests + 1
        /\ released' = Append(released, t2)

\* _wait_for_rate_limit, entered at `now`; each sleep overshoots by `over`.
WaitForRateLimit(over) ==
    LET stamps == SelectSeq(request_timestamps, LAMBDA t : Fresh(now, t))
        w1 == WindowWait(now, stamps)
        t1 == IF w1 > 0 THEN now + w1 + over ELSE now
        w2 == DelayWait(t1)
        t2 == IF w2 > 0 THEN t1 + w2 + over ELSE t1
    IN  /\ now' = t2
        /\ last_request_time' = t2
        /\ request_timestamps' = Append(stamps, t2)
        /\ total_requests' = total_requests + 1
        /\ released' = Append(released, t2)

\* The limiter outside its own machine.
LimiterIdle ==
    /\ now = Epoch
    /\ rate_limit_delay = 1
    /\ max_requests_per_minute = 1
    /\ last_request_time = 0
    /\ request_timestamps = <<>>
    /\ total_requests = 0
    /\ released = <<>>
    /\ waited = FALSE
    /\ api_return = None

\* ------------------------------------- GeminiBookDetector._validate_books
\* str.strip() on the titles the model uses.
Strip(text) == IF text = " T " THEN "T" ELSE IF text = " " THEN "" ELSE text

\* One element of the decoded array: a dict with its 'title' (None: no such
\* key) and its 'confidence' in tenths (None: no such key), or something
\* that is no dict.
RawBook(kind, title, confidence) == [kind |-> kind, title |-> title, confidence |-> confidence]

RawBooks ==
    { RawBook("other", None, None) }
    \cup { RawBook("dict", title, confidence) :
              title \in {None, Some(""), Some(" "), Some("T"), Some(" T ")},
              confidence \in {None, Some(4), Some(5), Some(10), Some(15)} }

\* item.get('confidence', 0.8), in tenths.
ConfidenceOf(item) == IF item.confidence = None THEN 8 ELSE Val(item.confidence)

\* item.get('title', '').strip()
TitleOf(item) == IF item.title = None THEN "" ELSE Strip(Val(item.title))

\* The loop of _validate_books: elements that are no dict, have an empty
\* title or a confidence below 0.5 are skipped; the others are kept in
\* order.
RECURSIVE validate_books(_)
validate_books(data) ==
    IF data = <<>> THEN <<>>
    ELSE LET item == Head(data)
         IN  IF item.kind # "dict" THEN validate_books(Tail(data))
             ELSE IF TitleOf(item) = "" THEN validate_books(Tail(data))
             ELSE IF ConfidenceOf(item) < 5 THEN validate_books(Tail(data))
             ELSE <<[title |-> TitleOf(item), confidence |-> ConfidenceOf(item)]>>
                      \o validate_books(Tail(data))

\* The validator outside its own specification.
ValidatorIdle ==
    /\ raw = <<>>
    /\ validated = None

\* ------------------------------------------- requests served at once
\* Two analyze requests, each with its own generate() and its own locals.
RunIds == {1, 2}

\* UPLOAD_FOLDER / f"{int(time.time())}_{filename}": the path follows from
\* the second of the upload and the file name, so two uploads may get the
\* same path or different ones.
Paths == {"u1", "u2"}

\* BoekenbalieAPI(token): a new instance with its own limiter state.
NewApi == [last_request_time |-> 0, request_timestamps |-> <<>>, total_requests |-> 0]

\* A request before it arrives.  The image of run r shows r books.
NewRun(r, path) ==
    [pc |-> "request", path |-> path, image |-> r, detected |-> 0, j |-> 0,
     api |-> NewApi, profitable |-> <<>>, events |-> <<>>]

\* The two-request machine outside its own specification.
RunsIdle ==
    /\ runs = [r \in RunIds |-> NewRun(r, "u1")]
    /\ files = [f \in Paths |-> None]

\* ------------------------------- BookProfitabilityChecker.check_book
\* The result dict, reduced to the fields the pipeline reads, plus what the
\* call did: `raised` (an exception left check_book) and `requests` (the API
\* requests it made).
CheckResult(interested, price, profit, raised, requests) ==
    [interested |-> interested, boekenbalie_price |-> price, profit |-> profit,
     raised |-> raised, requests |-> requests]

\* check_book that asks the interest check a second time when the first
\* brought nothing.
check_book_retries_interest(your_purchase_price, ihttp, phttp) ==
    LET interest_data == check_interest(ihttp)
    IN  IF interest_data = None
        THEN CheckResult(FALSE, None, None, "", <<"interest", "interest">>)
        ELSE IF Val(interest_data).kind # "dict"
        THEN CheckResult(FALSE, None, None, "AttributeError", <<"interest">>)
        ELSE IF ~Val(interest_data).interested
        THEN CheckResult(FALSE, None, None, "", <<"interest">>)
        ELSE IF Val(interest_data).book_id = None
        THEN CheckResult(TRUE, None, None, "", <<"interest">>)
        ELSE LET boekenbalie_price == get_price(phttp)
             IN  IF boekenbalie_price = None
                 THEN CheckResult(TRUE, None, None, "", <<"interest", "price">>)
                 ELSE CheckResult(TRUE, boekenbalie_price,
                                  IF your_purchase_price > 0
                                  THEN Some(Val(boekenbalie_price) - your_purchase_price)
                                  ELSE None,
                                  "", <<"interest", "price">>)

check_book(your_purchase_price, ihttp, phttp) ==
    LET interest_data == check_interest(ihttp)
    IN  IF interest_data = None
        THEN CheckResult(FALSE, None, None, "", <<"interest">>)
        ELSE IF Val(interest_data).kind # "dict"
        THEN CheckResult(FALSE, None, None, "AttributeError", <<"interest">>)
        ELSE IF ~Val(interest_data).interested
        THEN CheckResult(FALSE, None, None, "", <<"interest">>)
        ELSE IF Val(interest_data).book_id = None
        THEN CheckResult(TRUE, None, None, "", <<"interest">>)
        ELSE LET boekenbalie_price == get_price(phttp)
             IN  IF boekenbalie_price = None
                 THEN CheckResult(TRUE, None, None, "", <<"interest", "price">>)
                 ELSE CheckResult(TRUE, boekenbalie_price,
                                  IF your_purchase_price > 0
                                  THEN Some(Val(boekenbalie_price) - your_purchase_price)
                                  ELSE None,
                                  "", <<"interest", "price">>)

\* ------------------------------------------------ the detector (Gemini)
\* What one generate_content call comes to: an API error, a text
\* _parse_response raises ValueError or JSONDecodeError on, or a text it
\* parses into n validated detections.
Attempts ==
    { [kind |-> "error", n |-> 0], [kind |-> "unparseable", n |-> 0] }
    \cup { [kind |-> "books", n |-> k] : k \in 0..MaxBooks }

\* detect_books_from_image that raises when the second attempt cannot be
\* parsed either.
detect_books_raise_when_exhausted(a1, a2) ==
    IF a1.kind = "books" THEN [raised |-> FALSE, n |-> a1.n, attempts |-> <<a1.kind>>]
    ELSE IF a1.kind = "error" THEN [raised |-> TRUE, n |-> 0, attempts |-> <<a1.kind>>]
    ELSE IF a2.kind = "books" THEN [raised |-> FALSE, n |-> a2.n, attempts |-> <<a1.kind, a2.kind>>]
    ELSE [raised |-> TRUE, n |-> 0, attempts |-> <<a1.kind, a2.kind>>]

\* The loop `for attempt in range(2)`: the first attempt's detections; an
\* API error is raised again; a parse failure leads to the second attempt,
\* and a second parse failure to the empty list.
detect_books_from_image(a1, a2) ==
    IF a1.kind = "books" THEN [raised |-> FALSE, n |-> a1.n, attempts |-> <<a1.kind>>]
    ELSE IF a1.kind = "error" THEN [raised |-> TRUE, n |-> 0, attempts |-> <<a1.kind>>]
    ELSE IF a2.kind = "books" THEN [raised |-> FALSE, n |-> a2.n, attempts |-> <<a1.kind, a2.kind>>]
    ELSE IF a2.kind = "error" THEN [raised |-> TRUE, n |-> 0, attempts |-> <<a1.kind, a2.kind>>]
    ELSE [raised |-> FALSE, n |-> 0, attempts |-> <<a1.kind, a2.kind>>]

\* ------------------------------------------------ analyze.generate
\* float() on the text of a form field: the numbers the model uses, and
\* None for a text float() raises ValueError on.
FloatTexts == { <<"-1", -1>>, <<"0", 0>>, <<"1", 1>>, <<"2", 2>> }

PyFloat(text) ==
    IF \E p \in FloatTexts : p[1] = text
    THEN Some((CHOOSE p \in FloatTexts : p[1] = text)[2])
    ELSE None

\* The purchase_price field of the form: absent, a number's text, or a text
\* that is no number.
FormPrices == {None, Some("abc")} \cup { Some(p[1]) : p \in FloatTexts }

\* A file name as its parts between the dots, and str.lower() on the
\* extensions the model uses.
ALLOWED_EXTENSIONS == {"jpg", "jpeg", "png", "webp", "heic", "heif"}

Lower(ext) == IF ext = "JPG" THEN "jpg" ELSE ext

allowed_file(filename) ==
    /\ Len(filename) >= 2
    /\ Lower(filename[Len(filename)]) \in ALLOWED_EXTENSIONS

\* The image part of the request: absent, or a file with its name.
Images ==
    { None, Some(<<>>), Some(<<"shelf">>), Some(<<"shelf", "txt">>),
      Some(<<"shelf", "jpg">>), Some(<<"shelf", "JPG">>) }

\* The requests of the model: every image with every purchase_price field,
\* the upper-case extension with the absent field only.
Requests ==
    { r \in [image : Images, purchase_price : FormPrices] :
          r.image = Some(<<"shelf", "JPG">>) => r.purchase_price = None }

\* float(request.form.get('purchase_price', 1.0)), 1.0 on ValueError.
parse_purchase_price(field) ==
    IF field = None THEN 1
    ELSE IF PyFloat(Val(field)) = None THEN 1
    ELSE Val(PyFloat(Val(field)))

\* analyze() that answers an unparseable purchase_price with an error
\* response.
analyze_request_strict(req) ==
    IF req.image = None \/ Val(req.image) = <<>> \/ ~allowed_file(Val(req.image))
    THEN [accepted |-> FALSE, purchase_price |-> 1]
    ELSE IF req.purchase_price # None /\ PyFloat(Val(req.purchase_price)) = None
    THEN [accepted |-> FALSE, purchase_price |-> 1]
    ELSE [accepted |-> TRUE, purchase_price |-> parse_purchase_price(req.purchase_price)]

\* analyze() up to generate(): the two image checks, each answered with a
\* one-event error response, then the purchase price.
analyze_request(req) ==
    IF req.image = None \/ Val(req.image) = <<>> \/ ~allowed_file(Val(req.image))
    THEN [accepted |-> FALSE, purchase_price |-> 1]
    ELSE [accepted |-> TRUE, purchase_price |-> parse_purchase_price(req.purchase_price)]

Detection == [title |-> "T", author |-> "a"]

\* The catalog responses inside a pipeline run: a failed pass, or up to two
\* of these records in any order.
PipeItems == { Physical("A", "nl", "P1"), Physical("B", "en", "P1") }

PipeResponses ==
    { Response(500, <<>>), Response(200, <<>>) }
    \cup { Response(200, <<x>>) : x \in PipeItems }
    \cup { Response(200, <<x, y>>) : x \in PipeItems, y \in PipeItems }

Event(type, index) == [type |-> type, index |-> index]

\* EditionResult with the profit check_book computed (None unless the
\* purchase price is positive).
EditionResultCheckerProfit(ed, res) ==
    LET interested == res.boekenbalie_price # None
        sell_price == IF interested THEN res.boekenbalie_price ELSE None
    IN  [isbn |-> ed.isbn, publisher |-> ed.publisher, language |-> ed.language,
         interested |-> interested,
         sell_price |-> sell_price,
         profit |-> res.profit]

\* EditionResult with check_book's own 'interested' flag.
EditionResultFlag(ed, res) ==
    LET interested == res.interested
        sell_price == res.boekenbalie_price
    IN  [isbn |-> ed.isbn, publisher |-> ed.publisher, language |-> ed.language,
         interested |-> interested,
         sell_price |-> sell_price,
         profit |-> IF sell_price # None THEN Some(Val(sell_price) - purchase_price) ELSE None]

\* edition_results.append({...}) of the pricing loop.
EditionResult(ed, res) ==
    LET interested == res.boekenbalie_price # None
        sell_price == IF interested THEN res.boekenbalie_price ELSE None
    IN  [isbn |-> ed.isbn, publisher |-> ed.publisher, language |-> ed.language,
         interested |-> interested,
         sell_price |-> sell_price,
         profit |-> IF interested THEN Some(Val(sell_price) - purchase_price) ELSE None]

Interested(e) == e.interested

\* max(bought, key=lambda e: e['sell_price']): the first element with the
\* largest key.
RECURSIVE PyMax(_, _)
PyMax(best, rest) ==
    IF rest = <<>> THEN best
    ELSE IF Val(Head(rest).sell_price) > Val(best.sell_price)
         THEN PyMax(Head(rest), Tail(rest))
         ELSE PyMax(best, Tail(rest))

\* max() that keeps the last of the largest elements.
RECURSIVE PyMaxLast(_, _)
PyMaxLast(best, rest) ==
    IF rest = <<>> THEN best
    ELSE IF Val(Head(rest).sell_price) >= Val(best.sell_price)
         THEN PyMaxLast(Head(rest), Tail(rest))
         ELSE PyMaxLast(best, Tail(rest))

BestOfLast(bought) == PyMaxLast(Head(bought), Tail(bought))

BestOf(bought) == PyMax(Head(bought), Tail(bought))

\* profit / purchase_price * 100, None when the division raises.  The
\* purchase prices that reach the division are 1 and 2, so the quotient of
\* profit * 100 is exact.
TrueDiv100(profit, price) ==
    IF price = 0 THEN None ELSE Some((profit * 100) \div price)

\* Margin guarded by `purchase_price >= 0`.
MarginGuardGe(profit, price) ==
    IF price >= 0 THEN TrueDiv100(profit, price) ELSE Some(0)

Margin(profit, price) ==
    IF price > 0 THEN TrueDiv100(profit, price) ELSE Some(0)

\* The ratio taken the other way round: len(edition_results) / len(bought).
ChanceSwapped(nbought, nchecked) ==
    IF nbought = 0 THEN None ELSE Some(<<nchecked * 100, nbought>>)

\* len(bought) / len(edition_results) * 100, kept as the exact fraction
\* <<numerator, denominator>>; None when the division raises.
Chance(nbought, nchecked) ==
    IF nchecked = 0 THEN None ELSE Some(<<nbought * 100, nchecked>>)

\* profitable.sort(key=lambda x: x['profit'], reverse=True): a stable sort,
\* descending; equal keys keep their order.
RECURSIVE InsertDesc(_, _)
InsertDesc(sorted, x) ==
    IF sorted = <<>> THEN <<x>>
    ELSE IF Head(sorted).profit >= x.profit
         THEN <<Head(sorted)>> \o InsertDesc(Tail(sorted), x)
         ELSE <<x>> \o sorted

\* sorted ascending, then reversed: equal keys end in reverse order.
RECURSIVE InsertAsc(_, _)
InsertAsc(sorted, x) ==
    IF sorted = <<>> THEN <<x>>
    ELSE IF Head(sorted).profit <= x.profit
         THEN <<Head(sorted)>> \o InsertAsc(Tail(sorted), x)
         ELSE <<x>> \o sorted

RECURSIVE SortAsc(_)
SortAsc(s) ==
    IF s = <<>> THEN <<>>
    ELSE InsertAsc(SortAsc(SubSeq(s, 1, Len(s) - 1)), s[Len(s)])

SortAscReversed(s) == [n \in 1..Len(s) |-> SortAsc(s)[Len(s) + 1 - n]]

RECURSIVE SortByProfitDesc(_)
SortByProfitDesc(s) ==
    IF s = <<>> THEN <<>>
    ELSE InsertDesc(SortByProfitDesc(SubSeq(s, 1, Len(s) - 1)), s[Len(s)])

NoDone == [summary |-> [detected |-> 0, with_isbn |-> 0, profitable |-> 0], books |-> <<>>]

\* The pipeline before the request (also its value in the other machines).
PipeIdle ==
    /\ pc = "idle"
    /\ purchase_price = 1
    /\ token = TRUE
    /\ detected = <<>>
    /\ i = 0
    /\ books_with_isbn = <<>>
    /\ j = 0
    /\ edition_results = <<>>
    /\ profitable = <<>>
    /\ events = <<>>
    /\ probes = <<>>
    /\ lookups = <<>>
    /\ exchange = None
    /\ err = ""
    /\ done = NoDone
    /\ request = [image |-> None, purchase_price |-> None]
    /\ attempts = <<>>
    /\ filepath = "unsaved"

Init ==
    /\ rpc = "off"
    /\ rTitle = ""
    /\ rAuthor = ""
    /\ resp1 = Response(200, <<>>)
    /\ resp2 = Response(200, <<>>)
    /\ rResult = NoLookup
    /\ pc = "request"
    /\ request \in Requests
    /\ attempts = <<>>
    /\ purchase_price = 1
    /\ token \in BOOLEAN
    /\ detected = <<>>
    /\ i = 0
    /\ books_with_isbn = <<>>
    /\ j = 0
    /\ edition_results = <<>>
    /\ profitable = <<>>
    /\ events = <<>>
    /\ probes = <<>>
    /\ lookups = <<>>
    /\ exchange = None
    /\ err = ""
    /\ done = NoDone
    /\ filepath = "unsaved"
    /\ LimiterIdle
    /\ RunsIdle
    /\ ValidatorIdle

\* An except clause that reports the error and lets the run fall through to
\* the 'done' event.
on_exception_falls_through(cause) ==
    [events |-> <<Event("error", 0), Event("done", 0)>>, pc |-> "error", err |-> cause]

\* except Exception as e: yield the 'error' event; the generator ends.
on_exception(cause) ==
    [events |-> <<Event("error", 0)>>, pc |-> "error", err |-> cause]

\* An exception reaches the except clause of generate().
Raise(cause) ==
    /\ pc' = on_exception(cause).pc
    /\ err' = on_exception(cause).err
    /\ events' = events \o on_exception(cause).events

\* analyze() receives the request: an error response, or the purchase price
\* is set and generate() starts.
Analyze ==
    /\ pc = "request"
    /\ LET a == analyze_request(request)
       IN  IF a.accepted
           THEN /\ pc' = "start"
                /\ purchase_price' = a.purchase_price
                /\ filepath' = "saved"
                /\ UNCHANGED events
           ELSE /\ pc' = "rejected"
                /\ events' = <<Event("error", 0)>>
                /\ UNCHANGED <<purchase_price, filepath>>
    /\ UNCHANGED <<request, attempts, token, detected, i, books_with_isbn, j, edition_results,
                   profitable, probes, lookups, exchange, err, done,
                   resolverVars, limiterVars, runVars, validatorVars>>

\* report_detected without the early return on an empty detection list.
report_detected_no_return(n) ==
    [events |-> <<Event("detected", n), Event("status", 2)>>, pc |-> "isbn"]

\* After the detector returned n detections: the 'detected' event, then
\* either the 'done' event of an empty run and the return, or the status
\* event of step 2.
report_detected(n) ==
    IF n = 0
    THEN [events |-> <<Event("detected", 0), Event("done", 0)>>, pc |-> "done"]
    ELSE [events |-> <<Event("detected", n), Event("status", 2)>>, pc |-> "isbn"]

\* Step 1: the status event, then the detector runs, its two
\* generate_content calls answering a1 and a2, and returns its detections.
Detect(a1, a2) ==
    /\ pc = "start"
    /\ LET r == detect_books_from_image(a1, a2)
       IN  /\ ~r.raised
           /\ attempts' = r.attempts
           /\ detected' = [x \in 1..r.n |-> Detection]
    /\ events' = Append(events, Event("status", 1))
    /\ pc' = "detected"
    /\ UNCHANGED <<request, purchase_price, token, i, books_with_isbn, j, edition_results,
                   profitable, probes, lookups, exchange, err, done, filepath,
                   resolverVars, limiterVars, runVars, validatorVars>>

\* Step 1 when the detector raises (API error): the run ends with the
\* 'error' event.
DetectFails(a1, a2) ==
    /\ pc = "start"
    /\ LET r == detect_books_from_image(a1, a2)
       IN  /\ r.raised
           /\ attempts' = r.attempts
    /\ pc' = on_exception("detector").pc
    /\ err' = on_exception("detector").err
    /\ events' = (events \o <<Event("status", 1)>>) \o on_exception("detector").events
    /\ UNCHANGED <<request, purchase_price, token, detected, i, books_with_isbn, j,
                   edition_results, profitable, probes, lookups, exchange, done,
                   filepath,
                   resolverVars, limiterVars, runVars, validatorVars>>

\* The detector has returned: the 'detected' event, then the end of an
\* empty run or the start of step 2.
ReportDetected ==
    /\ pc = "detected"
    /\ events' = events \o report_detected(Len(detected)).events
    /\ pc' = report_detected(Len(detected)).pc
    /\ done' = IF detected = <<>> THEN NoDone ELSE done
    /\ attempts' = <<>>
    /\ UNCHANGED <<request, purchase_price, token, detected, i, books_with_isbn, j,
                   edition_results, profitable, probes, lookups, exchange, err,
                   filepath,
                   resolverVars, limiterVars, runVars, validatorVars>>

\* resolve_step without the `if editions` test: editions[0] raises IndexError
\* on the empty list.
resolve_step_no_guard(book, idx, editions) ==
    IF editions # <<>>
    THEN [books |-> << [title |-> book.title, isbns |-> editions, det |-> idx] >>,
          events |-> <<Event("isbn_progress", idx), Event("isbn_found", idx)>>,
          raised |-> ""]
    ELSE [books |-> <<>>,
          events |-> <<Event("isbn_progress", idx)>>,
          raised |-> "IndexError"]

\* resolve_step that yields isbn_progress after the lookup's outcome.
resolve_step_progress_last(book, idx, editions) ==
    IF editions # <<>>
    THEN [books |-> << [title |-> book.title, isbns |-> editions, det |-> idx] >>,
          events |-> <<Event("isbn_found", idx), Event("isbn_progress", idx)>>,
          raised |-> ""]
    ELSE [books |-> <<>>,
          events |-> <<Event("isbn_missing", idx), Event("isbn_progress", idx)>>,
          raised |-> ""]

\* The body of the ISBN loop after find_all_isbns returned `editions` for
\* detection number idx: the book appended to books_with_isbn (none when
\* there is no edition), the events yielded, the exception raised ("": none).
resolve_step(book, idx, editions) ==
    IF editions # <<>>
    THEN [books |-> << [title |-> book.title, isbns |-> editions, det |-> idx] >>,
          events |-> <<Event("isbn_progress", idx), Event("isbn_found", idx)>>,
          raised |-> ""]
    ELSE [books |-> <<>>,
          events |-> <<Event("isbn_progress", idx), Event("isbn_missing", idx)>>,
          raised |-> ""]

\* One turn of the ISBN loop: detection i+1 is resolved against the catalog
\* responses r1 and r2.
ResolveBook(r1, r2) ==
    /\ pc = "isbn"
    /\ i < Len(detected)
    /\ LET book == detected[i + 1]
           editions == find_all_isbns(book.title, book.author, r1, r2).editions
           step == resolve_step(book, i + 1, editions)
       IN  /\ lookups' = Append(lookups, Len(editions))
           /\ books_with_isbn' = books_with_isbn \o step.books
           /\ IF step.raised # ""
              THEN /\ events' = (events \o step.events) \o on_exception(step.raised).events
                   /\ pc' = on_exception(step.raised).pc
                   /\ err' = on_exception(step.raised).err
              ELSE /\ events' = events \o step.events
                   /\ UNCHANGED <<pc, err>>
    /\ i' = i + 1
    /\ UNCHANGED <<request, attempts, purchase_price, token, detected, j, edition_results,
                   profitable, probes, exchange, done, filepath,
                   resolverVars, limiterVars, runVars, validatorVars>>

\* Step 3 that goes on to the pricing loop whatever load_token returned.
begin_pricing_without_token_test(tok) ==
    [events |-> <<Event("status", 3)>>, pc |-> "pricing"]

\* The start of step 3: the status event, then `if not token`: the 'error'
\* event and the return.
begin_pricing(tok) ==
    IF ~tok
    THEN [events |-> <<Event("status", 3), Event("error", 0)>>, pc |-> "error"]
    ELSE [events |-> <<Event("status", 3)>>, pc |-> "pricing"]

\* Step 3 starts: the status event, then the token check.
BeginPricing ==
    /\ pc = "isbn"
    /\ i = Len(detected)
    /\ pc' = begin_pricing(token).pc
    /\ events' = events \o begin_pricing(token).events
    /\ UNCHANGED <<request, attempts, purchase_price, token, detected, i, books_with_isbn, j, edition_results,
                   profitable, probes, lookups, exchange, err, done, filepath,
                   resolverVars, limiterVars, runVars, validatorVars>>

\* The pricing loop turns to book j+1: the price_progress event.
PriceProgress ==
    /\ pc = "pricing"
    /\ j < Len(books_with_isbn)
    /\ pc' = "probe"
    /\ edition_results' = <<>>
    /\ events' = Append(events, Event("price_progress", j + 1))
    /\ UNCHANGED <<request, attempts, purchase_price, token, detected, i, books_with_isbn, j,
                   profitable, probes, lookups, exchange, err, done, filepath,
                   resolverVars, limiterVars, runVars, validatorVars>>

\* What the buy-back service answered to one check_book call: the interest
\* answer and, when the price lookup was issued, the price answer.
Exchange(ihttp, phttp, requests) ==
    IF \E n \in 1..Len(requests) : requests[n] = "price"
    THEN Some([interest |-> ihttp, price_issued |-> TRUE, price |-> phttp,
               requests |-> requests])
    ELSE Some([interest |-> ihttp, price_issued |-> FALSE,
               price |-> Http(0, PriceBody(None, None)), requests |-> requests])

\* The edition loop run from the last edition to the first.
next_edition_reversed(book, results) == book.isbns[Len(book.isbns) - Len(results)]

\* `for ed in book['isbns']`: the edition the loop turns to after the
\* results so far.
next_edition(book, results) == book.isbns[Len(results) + 1]

\* One turn of the edition loop: check_book on the next edition of book j+1,
\* the buy-back service answering ihttp (interest) and phttp (price).
ProbeEdition(ihttp, phttp) ==
    /\ pc = "probe"
    /\ Len(edition_results) < Len(books_with_isbn[j + 1].isbns)
    /\ LET book == books_with_isbn[j + 1]
           ed == next_edition(book, edition_results)
           res == check_book(purchase_price, ihttp, phttp)
       IN  /\ exchange' = Exchange(ihttp, phttp, res.requests)
           /\ IF res.raised # ""
              THEN /\ Raise(res.raised)
                   /\ probes' = Append(probes, [det |-> book.det, book |-> j + 1, isbn |-> ed.isbn,
                                                interested |-> FALSE,
                                                raised |-> TRUE])
                   /\ UNCHANGED edition_results
              ELSE /\ edition_results' = Append(edition_results, EditionResult(ed, res))
                   /\ probes' = Append(probes, [det |-> book.det, book |-> j + 1, isbn |-> ed.isbn,
                                                interested |-> EditionResult(ed, res).interested,
                                                raised |-> FALSE])
                   /\ UNCHANGED <<pc, err, events>>
    /\ UNCHANGED <<request, attempts, purchase_price, token, detected, i, books_with_isbn, j,
                   profitable, lookups, done, filepath,
                   resolverVars, limiterVars, runVars, validatorVars>>

\* A BookEntry whose all_editions keeps only the editions the service buys.
aggregate_entry_bought_only(book, idx, results, bought, price) ==
    LET best == BestOf(bought)
        sell == Val(best.sell_price)
        profit == sell - price
        margin == Margin(profit, price)
        chance == Chance(Len(bought), Len(results))
    IN  IF margin = None \/ chance = None
        THEN [events |-> <<>>, entries |-> <<>>, raised |-> "ZeroDivisionError"]
        ELSE [events |-> <<Event("book_result", idx)>>,
              entries |-> << [title |-> book.title,
                              isbn |-> best.isbn,
                              det |-> book.det,
                              index |-> idx,
                              purchase_price |-> price,
                              sell_price |-> sell,
                              profit |-> profit,
                              margin_percent |-> Val(margin),
                              editions_checked |-> Len(results),
                              editions_bought |-> Len(bought),
                              chance_percent |-> Val(chance),
                              all_editions |-> bought] >>,
              raised |-> ""]

\* The BookEntry branch of the pricing loop: `bought` is not empty.
aggregate_entry(book, idx, results, bought, price) ==
    LET best == BestOf(bought)
        sell == Val(best.sell_price)
        profit == sell - price
        margin == Margin(profit, price)
        chance == Chance(Len(bought), Len(results))
    IN  IF margin = None \/ chance = None
        THEN [events |-> <<>>, entries |-> <<>>, raised |-> "ZeroDivisionError"]
        ELSE [events |-> <<Event("book_result", idx)>>,
              entries |-> << [title |-> book.title,
                              isbn |-> best.isbn,
                              det |-> book.det,
                              index |-> idx,
                              purchase_price |-> price,
                              sell_price |-> sell,
                              profit |-> profit,
                              margin_percent |-> Val(margin),
                              editions_checked |-> Len(results),
                              editions_bought |-> Len(bought),
                              chance_percent |-> Val(chance),
                              all_editions |-> results] >>,
              raised |-> ""]

\* aggregate without the `continue` after book_skip: max() of the empty
\* list raises ValueError.
aggregate_no_continue(book, idx, results, price) ==
    LET bought == SelectSeq(results, Interested)
    IN  IF bought = <<>>
        THEN [events |-> <<Event("book_skip", idx)>>, entries |-> <<>>, raised |-> "ValueError"]
        ELSE aggregate_entry(book, idx, results, bought, price)

\* The body of the pricing loop after the edition loop, for book number idx:
\* the events yielded, the entries appended to profitable (none or one), the
\* exception raised ("": none).
aggregate(book, idx, results, price) ==
    LET bought == SelectSeq(results, Interested)
    IN  IF bought = <<>>
        THEN [events |-> <<Event("book_skip", idx)>>, entries |-> <<>>, raised |-> ""]
        ELSE aggregate_entry(book, idx, results, bought, price)

\* After the last edition of book j+1: book_skip, or the BookEntry and its
\* book_result event; then the loop goes on with the next book.
Aggregate ==
    /\ pc = "probe"
    /\ Len(edition_results) = Len(books_with_isbn[j + 1].isbns)
    /\ LET out == aggregate(books_with_isbn[j + 1], j + 1, edition_results, purchase_price)
       IN  /\ profitable' = profitable \o out.entries
           /\ IF out.raised # ""
              THEN /\ events' = (events \o out.events) \o on_exception(out.raised).events
                   /\ pc' = on_exception(out.raised).pc
                   /\ err' = on_exception(out.raised).err
                   /\ UNCHANGED <<j, exchange>>
              ELSE /\ events' = events \o out.events
                   /\ pc' = "pricing"
                   /\ j' = j + 1
                   /\ exchange' = None
                   /\ UNCHANGED err
    /\ UNCHANGED <<request, attempts, purchase_price, token, detected, i, books_with_isbn,
                   edition_results, probes, lookups, done, filepath,
                   resolverVars, limiterVars, runVars, validatorVars>>

\* A summary that counts the detections as resolved.
summary_counts_all_resolved(dets, books, entries) ==
    [detected |-> Len(dets), with_isbn |-> Len(dets), profitable |-> Len(entries)]

\* The counts of the 'done' event's summary.
summary_counts(dets, books, entries) ==
    [detected |-> Len(dets), with_isbn |-> Len(books), profitable |-> Len(entries)]

\* A loop test that is never met.
loop_never_over(k, list) == k > Len(list)

\* `for i, book in enumerate(books_with_isbn)` has handled every book.
loop_over(k, list) == k = Len(list)

\* After the pricing loop: the sort and the 'done' event.
Finish ==
    /\ pc = "pricing"
    /\ loop_over(j, books_with_isbn)
    /\ profitable' = SortByProfitDesc(profitable)
    /\ done' = [summary |-> summary_counts(detected, books_with_isbn, profitable),
                books |-> profitable']
    /\ events' = Append(events, Event("done", 0))
    /\ pc' = "done"
    /\ UNCHANGED <<request, attempts, purchase_price, token, detected, i, books_with_isbn, j,
                   edition_results, probes, lookups, exchange, err, filepath,
                   resolverVars, limiterVars, runVars, validatorVars>>

\* An unlink placed at the end of the try block instead of in `finally`:
\* only the exits through a 'done' event reach it.
unlink_due_after_done_only(p) == p = "done"

\* `finally`: generate() has left its try block, by the return after a
\* 'done' event, by the return after the missing-token 'error' event, or
\* through the except clause.
unlink_due(p) == p \in {"done", "error"}

\* The finally clause of generate(): the uploaded image is unlinked.
Cleanup ==
    /\ unlink_due(pc)
    /\ filepath = "saved"
    /\ filepath' = "unlinked"
    /\ UNCHANGED <<pc, purchase_price, token, detected, i, books_with_isbn, j,
                   edition_results, profitable, events, probes, lookups, exchange, err,
                   done, request, attempts, resolverVars, limiterVars, runVars,
                   validatorVars>>

Next ==
    \/ Analyze
    \/ \E a1 \in Attempts, a2 \in Attempts : Detect(a1, a2)
    \/ \E a1 \in Attempts, a2 \in Attempts : DetectFails(a1, a2)
    \/ ReportDetected
    \/ \E r1 \in PipeResponses, r2 \in PipeResponses : ResolveBook(r1, r2)
    \/ BeginPricing
    \/ PriceProgress
    \/ \E ihttp \in InterestHttps, phttp \in PriceHttps : ProbeEdition(ihttp, phttp)
    \/ Aggregate
    \/ Finish
    \/ Cleanup

Spec == Init /\ [][Next]_vars

\* The run as the server drives it: the response is iterated until the
\* generator ends, and every collaborator call returns, so a step that can
\* be taken is taken.
SpecLive == Init /\ [][Next]_vars /\ WF_vars(Next)

\* ------------------------------------------------------- limiter harness
\* BoekenbalieAPI(token, rate_limit_delay, max_requests_per_minute): the two
\* limits are constructor arguments, drawn here from whole seconds and small
\* caps so that a handful of calls fills the window.
LimiterInit ==
    /\ now = Epoch
    /\ rate_limit_delay \in {1, 2}
    /\ max_requests_per_minute \in {1, 2}
    /\ last_request_time = 0
    /\ request_timestamps = <<>>
    /\ total_requests = 0
    /\ released = <<>>
    /\ waited = FALSE
    /\ api_return = None
    /\ rpc = "off"
    /\ rTitle = ""
    /\ rAuthor = ""
    /\ resp1 = Response(200, <<>>)
    /\ resp2 = Response(200, <<>>)
    /\ rResult = NoLookup
    /\ PipeIdle
    /\ RunsIdle
    /\ ValidatorIdle

\* Time passes between two calls.
Tick(d) ==
    /\ ~waited
    /\ total_requests < MaxRequests
    /\ now' = now + d
    /\ waited' = TRUE
    /\ UNCHANGED <<rate_limit_delay, max_requests_per_minute, last_request_time,
                   request_timestamps, total_requests, released, api_return,
                   resolverVars, pipeVars, runVars, validatorVars>>

\* api.check_interest(isbn): the limiter, then the request, answered by http.
ApiCheckInterest(http, over) ==
    /\ total_requests < MaxRequests
    /\ WaitForRateLimit(over)
    /\ api_return' = IF check_interest(http) = None THEN None ELSE Some("interest")
    /\ waited' = FALSE
    /\ UNCHANGED <<rate_limit_delay, max_requests_per_minute, resolverVars, pipeVars, runVars, validatorVars>>

\* get_price that sends its request without calling _wait_for_rate_limit.
ApiGetPriceUnlimited(http, over) ==
    /\ total_requests < MaxRequests
    /\ api_return' = get_price(http)
    /\ waited' = FALSE
    /\ UNCHANGED <<now, last_request_time, request_timestamps, total_requests, released,
                   rate_limit_delay, max_requests_per_minute, resolverVars, pipeVars, runVars, validatorVars>>

\* api.get_price(book_id): the limiter, then the request, answered by http.
ApiGetPrice(http, over) ==
    /\ total_requests < MaxRequests
    /\ WaitForRateLimit(over)
    /\ api_return' = get_price(http)
    /\ waited' = FALSE
    /\ UNCHANGED <<rate_limit_delay, max_requests_per_minute, resolverVars, pipeVars, runVars, validatorVars>>

LimiterNext ==
    \/ \E d \in TimeSteps : Tick(d)
    \/ \E http \in {Http(404, NoBody), Http(200, InterestBody("dict", TRUE, Some("bk")))},
          over \in Overshoots : ApiCheckInterest(http, over)
    \/ \E http \in {Http(500, PriceBody(None, None)), Http(200, PriceBody(Some(300), None))},
          over \in Overshoots : ApiGetPrice(http, over)

SpecLimiter == LimiterInit /\ [][LimiterNext]_vars

\* ------------------------------------------- two requests served at once
\* Two uploads handled by two threads of the server.  The collaborators
\* are fixed so that a run's outcome follows from its image alone: every
\* detection resolves to one edition and every probe brings an offer.
RunsInit ==
    /\ runs \in { [r \in RunIds |-> NewRun(r, path[r])] : path \in [RunIds -> Paths] }
    /\ files = [f \in Paths |-> None]
    /\ rpc = "off"
    /\ rTitle = ""
    /\ rAuthor = ""
    /\ resp1 = Response(200, <<>>)
    /\ resp2 = Response(200, <<>>)
    /\ rResult = NoLookup
    /\ PipeIdle
    /\ LimiterIdle
    /\ ValidatorIdle

OtherMachines == <<resolverVars, pipeVars, rate_limit_delay, max_requests_per_minute,
                   last_request_time, request_timestamps, total_requests, released,
                   waited, api_return, validatorVars>>

\* The events of steps 1 and 2 for n detections, each resolved.
ResolvedEvents(n) ==
    <<Event("status", 1), Event("detected", n), Event("status", 2)>>
        \o [k \in 1..(2 * n) |-> IF k % 2 = 1 THEN Event("isbn_progress", (k + 1) \div 2)
                                               ELSE Event("isbn_found", k \div 2)]
        \o <<Event("status", 3)>>

\* analyze(): file.save(filepath) writes the upload to its path, replacing
\* what is there.
Upload(r) ==
    /\ runs[r].pc = "request"
    /\ files' = [files EXCEPT ![runs[r].path] = Some(runs[r].image)]
    /\ runs' = [runs EXCEPT ![r].pc = "start"]
    /\ UNCHANGED <<now, OtherMachines>>

\* Steps 1 and 2 of generate(): the detector opens the file at the run's
\* path and finds the books of the image stored there; a missing file
\* raises and the run ends with the 'error' event.
RunDetect(r) ==
    /\ runs[r].pc = "start"
    /\ IF files[runs[r].path] = None
       THEN runs' = [runs EXCEPT ![r].pc = "failed",
                                 ![r].events = <<Event("status", 1)>>
                                                   \o on_exception("detector").events]
       ELSE runs' = [runs EXCEPT ![r].pc = "pricing",
                                 ![r].detected = Val(files[runs[r].path]),
                                 ![r].api = NewApi,
                                 ![r].events = ResolvedEvents(Val(files[runs[r].path]))]
    /\ UNCHANGED <<files, now, OtherMachines>>

\* One turn of the pricing loop: the two requests of the probe pass the
\* run's own limiter, and the book gets its entry.
RunPrice(r) ==
    /\ runs[r].pc = "pricing"
    /\ runs[r].j < runs[r].detected
    /\ runs' = [runs EXCEPT
                   ![r].j = @ + 1,
                   ![r].api = [last_request_time |-> now + 1,
                               request_timestamps |-> @.request_timestamps \o <<now, now + 1>>,
                               total_requests |-> @.total_requests + 2],
                   ![r].profitable = Append(@, runs[r].j + 1),
                   ![r].events = @ \o <<Event("price_progress", runs[r].j + 1),
                                         Event("book_result", runs[r].j + 1)>>]
    /\ now' = now + 2
    /\ UNCHANGED <<files, OtherMachines>>

\* The 'done' event.
RunFinish(r) ==
    /\ runs[r].pc = "pricing"
    /\ runs[r].j = runs[r].detected
    /\ runs' = [runs EXCEPT ![r].pc = "done",
                             ![r].events = Append(@, Event("done", 0))]
    /\ UNCHANGED <<files, now, OtherMachines>>

\* finally: filepath.unlink(), a missing file being ignored.
RunClose(r) ==
    /\ runs[r].pc \in {"done", "failed"}
    /\ files' = [files EXCEPT ![runs[r].path] = None]
    /\ runs' = [runs EXCEPT ![r].pc = "closed"]
    /\ UNCHANGED <<now, OtherMachines>>

RunsNext ==
    \/ \E r \in RunIds : Upload(r)
    \/ \E r \in RunIds : RunDetect(r)
    \/ \E r \in RunIds : RunPrice(r)
    \/ \E r \in RunIds : RunFinish(r)
    \/ \E r \in RunIds : RunClose(r)

SpecRuns == RunsInit /\ [][RunsNext]_vars

\* ------------------------------------------------------ validator harness
ValidatorInit ==
    /\ raw = <<>>
    /\ validated = None
    /\ rpc = "off"
    /\ rTitle = ""
    /\ rAuthor = ""
    /\ resp1 = Response(200, <<>>)
    /\ resp2 = Response(200, <<>>)
    /\ rResult = NoLookup
    /\ PipeIdle
    /\ LimiterIdle
    /\ RunsIdle

\* The decoded array grows by one element.
RawElement(item) ==
    /\ validated = None
    /\ Len(raw) < MaxRaw
    /\ raw' = Append(raw, item)
    /\ UNCHANGED <<validated, resolverVars, pipeVars, limiterVars, runVars>>

\* The call itself.
ValidateCall ==
    /\ validated = None
    /\ validated' = Some(validate_books(raw))
    /\ UNCHANGED <<raw, resolverVars, pipeVars, limiterVars, runVars>>

ValidatorNext ==
    \/ \E item \in RawBooks : RawElement(item)
    \/ ValidateCall

SpecValidator == ValidatorInit /\ [][ValidatorNext]_vars

\* ------------------------------------------------------ resolver harness
ResolverInit ==
    /\ rpc = "build"
    /\ rTitle \in {"", "T"}
    /\ rAuthor \in {"", "a"}
    /\ resp1 = Response(200, <<>>)
    /\ resp2 = Response(200, <<>>)
    /\ rResult = NoLookup
    /\ PipeIdle
    /\ LimiterIdle
    /\ RunsIdle
    /\ ValidatorIdle

\* The catalog's answer to pass 1 grows by one item.
CatalogItem1(item) ==
    /\ rpc = "build"
    /\ resp1.status = 200
    /\ resp2.items = <<>>
    /\ Len(resp1.items) + Len(resp2.items) < MaxItems
    /\ resp1' = [resp1 EXCEPT !.items = Append(@, item)]
    /\ UNCHANGED <<rpc, rTitle, rAuthor, resp2, rResult, pipeVars, limiterVars, runVars, validatorVars>>

\* The catalog's answer to pass 2 grows by one item.
CatalogItem2(item) ==
    /\ rpc = "build"
    /\ resp2.status = 200
    /\ Len(resp1.items) + Len(resp2.items) < MaxItems
    /\ resp2' = [resp2 EXCEPT !.items = Append(@, item)]
    /\ UNCHANGED <<rpc, rTitle, rAuthor, resp1, rResult, pipeVars, limiterVars, runVars, validatorVars>>

\* Pass 1 fails as a whole: non-200 status (500) or a transport/parse error (0).
CatalogFail1(status) ==
    /\ rpc = "build"
    /\ resp1 = Response(200, <<>>)
    /\ resp2 = Response(200, <<>>)
    /\ resp1' = Response(status, <<>>)
    /\ UNCHANGED <<rpc, rTitle, rAuthor, resp2, rResult, pipeVars, limiterVars, runVars, validatorVars>>

\* Pass 2 fails as a whole.
CatalogFail2(status) ==
    /\ rpc = "build"
    /\ resp2 = Response(200, <<>>)
    /\ resp2' = Response(status, <<>>)
    /\ UNCHANGED <<rpc, rTitle, rAuthor, resp1, rResult, pipeVars, limiterVars, runVars, validatorVars>>

\* The call itself.
ResolveCall ==
    /\ rpc = "build"
    /\ rResult' = find_all_isbns(rTitle, rAuthor, resp1, resp2)
    /\ rpc' = "returned"
    /\ UNCHANGED <<rTitle, rAuthor, resp1, resp2, pipeVars, limiterVars, runVars, validatorVars>>

ResolverNext ==
    \/ \E item \in RawItems : CatalogItem1(item)
    \/ \E item \in RawItems : CatalogItem2(item)
    \/ \E s \in {0, 500} : CatalogFail1(s)
    \/ \E s \in {0, 500} : CatalogFail2(s)
    \/ ResolveCall

SpecResolver == ResolverInit /\ [][ResolverNext]_vars

\* ================================================================ claims
\* ---------------------------------------------------- resolver (C2, C3)
\* The records of a response that _fetch reads: all of them, up to the first
\* one whose identifiers raise.
RECURSIVE ReadPrefix(_)
ReadPrefix(items) ==
    IF items = <<>> THEN <<>>
    ELSE IF ~Head(items).isEbook /\ Head(items).printType = "BOOK" /\ Head(items).malformed
         THEN <<>>
         ELSE <<Head(items)>> \o ReadPrefix(Tail(items))

ReadOf(resp) == IF resp.status = 200 THEN ReadPrefix(resp.items) ELSE <<>>

\* A record that is an edition: a physical book with an identifier.
IsCandidate(item) ==
    /\ ~item.isEbook
    /\ item.printType = "BOOK"
    /\ (item.isbn_13 # None \/ item.isbn_10 # None)

CandIsbn(item) == IF item.isbn_13 # None THEN item.isbn_13[1] ELSE item.isbn_10[1]

\* The editions of the two passes in catalog order, pass 1 before pass 2.
Candidates == SelectSeq(ReadOf(resp1) \o ReadOf(resp2), IsCandidate)

\* q is the first occurrence of isbn among the candidates c.
IsFirstOccurrence(c, q, isbn) ==
    /\ CandIsbn(c[q]) = isbn
    /\ \A q2 \in 1..(q - 1) : CandIsbn(c[q2]) # isbn

SameRecord(e, item) ==
    /\ e.isbn_13 = item.isbn_13
    /\ e.isbn_10 = item.isbn_10
    /\ e.publisher = item.publisher
    /\ e.language = item.language

\* C2: the list find_all_isbns returns holds no two editions with the same
\* isbn, and each edition it holds is the first occurrence of its isbn among
\* the editions of the two passes (pass 1 before pass 2, catalog order
\* within a pass).  The editions of a pass are the physical books with an
\* identifier among the records _fetch read from it.
C2_NoDuplicateFirstWins ==
    rpc = "returned" =>
        LET eds == rResult.editions
            c == Candidates
        IN  /\ \A p \in 1..Len(eds) : \A q \in 1..Len(eds) : p # q => eds[p].isbn # eds[q].isbn
            /\ \A p \in 1..Len(eds) :
                   \E q \in 1..Len(c) : /\ IsFirstOccurrence(c, q, eds[p].isbn)
                                        /\ SameRecord(eds[p], c[q])

\* An isbn came in both passes, in two different records, and was returned.
C2_Witness ==
    /\ rpc = "returned"
    /\ Len(rResult.editions) >= 1
    /\ \E a \in 1..Len(resp1.items) : \E b \in 1..Len(resp2.items) :
           /\ IsCandidate(resp1.items[a]) /\ IsCandidate(resp2.items[b])
           /\ CandIsbn(resp1.items[a]) = CandIsbn(resp2.items[b])
           /\ resp1.items[a].publisher # resp2.items[b].publisher
           /\ \E p \in 1..Len(rResult.editions) : rResult.editions[p].isbn = CandIsbn(resp1.items[a])

\* The position at which isbn was first collected.
FirstPos(c, isbn) == CHOOSE q \in 1..Len(c) : IsFirstOccurrence(c, q, isbn)

\* C3: in the returned list every 'nl' edition precedes every other edition,
\* and inside each of the two groups the editions are in the order in which
\* they were first collected from the catalog.
C3_DutchFirstStable ==
    rpc = "returned" =>
        LET eds == rResult.editions
            c == Candidates
        IN  \A p \in 1..Len(eds) : \A q \in 1..Len(eds) :
                p < q =>
                    /\ ~(eds[p].language # "nl" /\ eds[q].language = "nl")
                    /\ (eds[p].language = "nl") = (eds[q].language = "nl")
                           => FirstPos(c, eds[p].isbn) < FirstPos(c, eds[q].isbn)

\* A non-Dutch edition was collected before a Dutch one, and two editions of
\* one group were returned.
C3_Witness ==
    /\ rpc = "returned"
    /\ Len(rResult.editions) = 3
    /\ Len(Candidates) >= 3
    /\ Candidates[1].language # "nl"
    /\ rResult.editions[1].language = "nl"
    /\ rResult.editions[3].language # "nl"
    /\ rResult.editions[2].language = rResult.editions[3].language

\* ------------------------------------------------------------ pipeline
HasEvent(type, idx) == \E n \in 1..Len(events) : events[n] = Event(type, idx)

EventPos(type, idx) == CHOOSE n \in 1..Len(events) : events[n] = Event(type, idx)

CountEvents(type) == Cardinality({n \in 1..Len(events) : events[n].type = type})

\* C1: the edition a BookEntry names is the interested edition with the
\* largest sell_price, the first of them in the Resolver's order when several
\* tie, so a Dutch edition wins a tie against a non-Dutch one.
C1_BestEditionFirstMax ==
    \A n \in 1..Len(profitable) :
        LET entry == profitable[n]
            all == entry.all_editions
            resolved == books_with_isbn[entry.index].isbns
        IN  /\ Len(all) = Len(resolved)
            /\ \A p \in 1..Len(all) : /\ all[p].isbn = resolved[p].isbn
                                      /\ all[p].language = resolved[p].language
            /\ \E p \in 1..Len(all) :
                   /\ all[p].interested
                   /\ all[p].isbn = entry.isbn
                   /\ all[p].sell_price = <<entry.sell_price>>
                   /\ \A q \in 1..Len(all) :
                          all[q].interested =>
                              /\ all[q].sell_price[1] <= entry.sell_price
                              /\ q < p => all[q].sell_price[1] < entry.sell_price
                              /\ (all[q].sell_price[1] = entry.sell_price /\ all[q].language = "nl")
                                     => all[p].language = "nl"

\* A Dutch and a non-Dutch edition of one book tie on the largest price.
C1_Witness ==
    \E n \in 1..Len(profitable) :
        LET all == profitable[n].all_editions
        IN  /\ Len(all) = 2
            /\ all[1].interested /\ all[2].interested
            /\ all[1].sell_price = all[2].sell_price
            /\ all[1].language = "nl" /\ all[2].language # "nl"
            /\ profitable[n].isbn = all[1].isbn

ProbeResultOK(e) ==
    /\ ~e.interested => (e.sell_price = <<>> /\ e.profit = <<>>)
    /\ e.interested => (e.sell_price # <<>> /\ e.profit = <<e.sell_price[1] - purchase_price>>)

\* C4: every probe result has no sell_price and no profit when it is not
\* interested, and a sell_price and profit = sell_price - purchase_price when
\* it is; for every purchase price, those <= 0 included.
C4_ProbeResultShape ==
    /\ \A p \in 1..Len(edition_results) : ProbeResultOK(edition_results[p])
    /\ \A n \in 1..Len(profitable) :
           \A p \in 1..Len(profitable[n].all_editions) : ProbeResultOK(profitable[n].all_editions[p])

\* An interested and a not interested result under a purchase price <= 0.
C4_Witness ==
    /\ purchase_price <= 0
    /\ Len(edition_results) = 2
    /\ edition_results[1].interested
    /\ ~edition_results[2].interested

\* The interest answer signals interest / the price answer carries a price,
\* read off the raw HTTP answers.
SignalsInterest(http) ==
    http.status = 200 /\ http.body.kind = "dict" /\ http.body.interested

CarriesPrice(http) ==
    http.status = 200 /\ (http.body.price # <<>> \/ http.body.offer_price # <<>>)

\* C5: a probe result is interested exactly when the interest check answered
\* with interest and the price lookup that followed answered with a price;
\* interest without a book id, or with a failed or empty price answer, gives
\* interested = false.
C5_InterestedIff ==
    (pc = "probe" /\ exchange # <<>>) =>
        LET x == exchange[1]
            last == edition_results[Len(edition_results)]
        IN  /\ Len(edition_results) >= 1
            /\ last.interested <=> (SignalsInterest(x.interest) /\ x.price_issued /\ CarriesPrice(x.price))
            /\ x.price_issued => (SignalsInterest(x.interest) /\ x.interest.body.book_id # <<>>)
            /\ (SignalsInterest(x.interest) /\ x.interest.body.book_id = <<>>) => ~last.interested

\* Interest was signalled and the price lookup came back without a price.
C5_Witness ==
    /\ pc = "probe"
    /\ exchange # <<>>
    /\ SignalsInterest(exchange[1].interest)
    /\ exchange[1].price_issued
    /\ ~CarriesPrice(exchange[1].price)
    /\ ~edition_results[Len(edition_results)].interested

\* C7: the books of the 'done' event are in descending order of profit, and
\* books of equal profit are in the order of their book_result events.
C7_SortedStable ==
    pc = "done" =>
        /\ Len(done.books) = CountEvents("book_result")
        /\ \A p \in 1..Len(done.books) : HasEvent("book_result", done.books[p].index)
        /\ \A p \in 1..Len(done.books) : \A q \in 1..Len(done.books) :
               p < q =>
                   /\ done.books[p].profit >= done.books[q].profit
                   /\ done.books[p].profit = done.books[q].profit
                          => EventPos("book_result", done.books[p].index)
                                 < EventPos("book_result", done.books[q].index)

\* Two books of equal profit in the 'done' event.
C7_Witness ==
    /\ pc = "done"
    /\ Len(done.books) >= 2
    /\ done.books[1].profit = done.books[2].profit

\* A run in which the sort moved a book forward.
C7_WitnessReordered ==
    /\ pc = "done"
    /\ Len(done.books) >= 2
    /\ done.books[1].index > done.books[2].index

ProbesOf(b) == {n \in 1..Len(probes) : probes[n].book = b}

\* Every edition of resolved book b has been probed, no probe raised and
\* none is interested.
NoneInterested(b) ==
    /\ Cardinality(ProbesOf(b)) = Len(books_with_isbn[b].isbns)
    /\ \A n \in ProbesOf(b) : ~probes[n].interested /\ ~probes[n].raised

\* C8: a resolved book none of whose editions is interested gets a book_skip
\* event and no entry; the skip raises nothing, the loop goes on with the
\* next book, and the book is neither in the final list nor counted in
\* summary.profitable.
C8_SkipNoInterest ==
    \A b \in 1..Len(books_with_isbn) :
        NoneInterested(b) =>
            /\ j >= b \/ (pc = "probe" /\ j = b - 1)
            /\ j >= b => (HasEvent("book_skip", b) /\ ~HasEvent("book_result", b))
            /\ \A n \in 1..Len(profitable) : profitable[n].index # b
            /\ pc = "done" =>
                   /\ \A n \in 1..Len(done.books) : done.books[n].index # b
                   /\ done.summary.profitable = CountEvents("book_result")
                   /\ \A b2 \in 1..Len(books_with_isbn) : HasEvent("price_progress", b2)

\* A skipped book was followed by a profitable one, and the run is done.
C8_Witness ==
    /\ pc = "done"
    /\ Len(books_with_isbn) = 2
    /\ NoneInterested(1)
    /\ HasEvent("book_skip", 1)
    /\ HasEvent("book_result", 2)

\* C9: a detection for which find_all_isbns returned no edition gets an
\* isbn_missing event, no check_book call, no place in books_with_isbn, in
\* summary.with_isbn or in the final list, and the ISBN loop goes on after it.
C9_MissingExcluded ==
    /\ Len(lookups) = i
    /\ pc \in {"pricing", "probe", "done", "error"} => i = Len(detected)
    /\ \A d \in 1..Len(lookups) :
           lookups[d] = 0 =>
               /\ HasEvent("isbn_missing", d)
               /\ ~HasEvent("isbn_found", d)
               /\ \A n \in 1..Len(probes) : probes[n].det # d
               /\ \A b \in 1..Len(books_with_isbn) : books_with_isbn[b].det # d
               /\ \A n \in 1..Len(profitable) : profitable[n].det # d
               /\ \A n \in 1..(Len(events) - 1) :
                      events[n] = Event("isbn_missing", d)
                          => events[n + 1].type \in {"isbn_progress", "status"}
    /\ pc = "done" =>
           /\ done.summary.with_isbn = Cardinality({d \in 1..Len(lookups) : lookups[d] > 0})
           /\ \A n \in 1..Len(done.books) : lookups[done.books[n].det] > 0
           /\ \A b \in 1..Len(books_with_isbn) : ProbesOf(b) # {}

\* The first detection had no edition, the second was resolved, probed and
\* is in the final list.
C9_Witness ==
    /\ pc = "done"
    /\ Len(lookups) = 2
    /\ lookups[1] = 0
    /\ Len(done.books) = 1
    /\ done.books[1].det = 2

\* C10: margin_percent = 0 when purchase_price <= 0, else
\* profit / purchase_price * 100 with profit = sell_price - purchase_price;
\* no purchase price makes the division raise.
C10_Margin ==
    /\ err # "ZeroDivisionError"
    /\ \A n \in 1..Len(profitable) :
           LET entry == profitable[n]
           IN  /\ entry.purchase_price = purchase_price
               /\ entry.profit = entry.sell_price - purchase_price
               /\ purchase_price <= 0 => entry.margin_percent = 0
               /\ purchase_price > 0 => entry.margin_percent * purchase_price = entry.profit * 100

\* A BookEntry under purchase price 0, and one with a non-zero margin.
C10_Witness ==
    /\ purchase_price = 0
    /\ Len(profitable) >= 1

C10_WitnessPositive ==
    /\ purchase_price = 2
    /\ \E n \in 1..Len(profitable) : profitable[n].margin_percent = 50

\* ------------------------------------------------------------ limiter
\* C6: on one instance, any max_requests_per_minute + 1 consecutive requests
\* are released at least a window (60 s) apart: a request that finds the
\* window full waits until the oldest request in it is a window old.
C6_WindowCap ==
    \A k \in 1..Len(released) :
        k + max_requests_per_minute <= Len(released)
            => released[k + max_requests_per_minute] - released[k] >= Window

\* With a cap of 2, the third request came 1 s after the first two and was
\* held until the first was a window old.
C6_Witness ==
    /\ max_requests_per_minute = 2
    /\ Len(released) >= 3
    /\ released[2] = released[1] + 1
    /\ released[3] = released[1] + Window

\* ------------------------------------------------------- chance_percent
\* C11: on every BookEntry, editions_checked is the number of editions
\* probed for the book, editions_bought the number of them that are
\* interested, 1 <= editions_bought <= editions_checked, and chance_percent
\* is editions_bought / editions_checked * 100, above 0 and at most 100.
C11_ChanceCounts ==
    \A n \in 1..Len(profitable) :
        LET entry == profitable[n]
            b == entry.index
            num == entry.chance_percent[1]
            den == entry.chance_percent[2]
        IN  /\ entry.editions_checked = Cardinality(ProbesOf(b))
            /\ entry.editions_checked = Len(books_with_isbn[b].isbns)
            /\ entry.editions_bought = Cardinality({m \in ProbesOf(b) : probes[m].interested})
            /\ 1 <= entry.editions_bought
            /\ entry.editions_bought <= entry.editions_checked
            /\ den > 0
            /\ num * entry.editions_checked = entry.editions_bought * 100 * den
            /\ 0 < num
            /\ num <= 100 * den

\* A BookEntry with one of its two editions bought: a chance of 50 percent.
C11_Witness ==
    \E n \in 1..Len(profitable) :
        /\ profitable[n].editions_checked = 2
        /\ profitable[n].editions_bought = 1
        /\ profitable[n].chance_percent = <<100, 2>>

\* C12: when the detector returns no detection, the run yields the
\* 'detected' event with count 0 and then the 'done' event with
\* detected = 0, with_isbn = 0, profitable = 0 and no books; there is no
\* 'error' event, and neither find_all_isbns nor check_book is called.
C12_EmptyRun ==
    (\E n \in 1..Len(events) : events[n] = Event("detected", 0)) =>
        /\ events = <<Event("status", 1), Event("detected", 0), Event("done", 0)>>
        /\ pc = "done"
        /\ err = ""
        /\ done.summary = [detected |-> 0, with_isbn |-> 0, profitable |-> 0]
        /\ done.books = <<>>
        /\ lookups = <<>>
        /\ probes = <<>>
        /\ i = 0 /\ j = 0

\* The detector returned the empty list and the run is over.
C12_Witness ==
    /\ pc = "done"
    /\ detected = <<>>
    /\ Len(events) = 3
    /\ events[2] = Event("detected", 0)

\* C13: when a collaborator raises inside generate(), the run yields exactly
\* one 'error' event, that event is the last one, and no 'done' event is
\* yielded; the events yielded before the failure stay as they were.
C13_SingleTerminalError ==
    /\ [](err # "" =>
             /\ pc = "error"
             /\ events # <<>>
             /\ events[Len(events)] = Event("error", 0)
             /\ CountEvents("error") = 1
             /\ CountEvents("done") = 0)
    /\ [][/\ Len(events') >= Len(events)
          /\ SubSeq(events', 1, Len(events)) = events
          /\ err # "" => events' = events]_vars

\* check_book raised on the second book, after the book_result event of the
\* first.
C13_Witness ==
    /\ pc = "error"
    /\ err = "AttributeError"
    /\ HasEvent("book_result", 1)
    /\ HasEvent("price_progress", 2)

\* The detector raised.
C13_WitnessDetector ==
    /\ pc = "error"
    /\ err = "detector"
    /\ events = <<Event("status", 1), Event("error", 0)>>

Positions(types) == {n \in 1..Len(events) : events[n].type \in types}

\* The events of the given types carry the indices 1, 2, ... in this order.
Ascending(types) ==
    /\ \A p \in Positions(types) : \A q \in Positions(types) :
           p < q => events[p].index < events[q].index
    /\ {events[p].index : p \in Positions(types)} = 1..Cardinality(Positions(types))

\* C14: the order of the events of a run.  status(1) comes before
\* 'detected'; status(2) before every isbn_progress; isbn_progress(i) is
\* immediately followed by isbn_found(i) or isbn_missing(i), once each, for
\* i = 1, 2, ... up to the number detected; every event of the ISBN loop
\* precedes status(3); price_progress(j) precedes the one book_result(j) or
\* book_skip(j), for j = 1, 2, ... over the resolved books; 'done' comes
\* after all of them and is the last event.
C14_EventOrder ==
    /\ \A n \in Positions({"detected"}) :
           /\ n = 2
           /\ events[1] = Event("status", 1)
           /\ events[n].index = Len(detected)
    /\ \A n \in Positions({"isbn_progress"}) :
           /\ HasEvent("status", 2)
           /\ EventPos("status", 2) < n
           /\ HasEvent("detected", Len(detected))
           /\ EventPos("detected", Len(detected)) < EventPos("status", 2)
           /\ n < Len(events)
           /\ events[n + 1] \in {Event("isbn_found", events[n].index),
                                  Event("isbn_missing", events[n].index)}
    /\ \A n \in Positions({"isbn_found", "isbn_missing"}) :
           /\ n > 1
           /\ events[n - 1] = Event("isbn_progress", events[n].index)
    /\ Ascending({"isbn_progress"})
    /\ Cardinality(Positions({"isbn_progress"})) <= Len(detected)
    /\ \A n \in Positions({"isbn_progress", "isbn_found", "isbn_missing"}) :
           \A m \in 1..Len(events) : events[m] = Event("status", 3) => n < m
    /\ \A n \in Positions({"price_progress"}) :
           /\ HasEvent("status", 3)
           /\ EventPos("status", 3) < n
           /\ Cardinality(Positions({"isbn_progress"})) = Len(detected)
    /\ \A n \in Positions({"book_result", "book_skip"}) :
           \E m \in 1..(n - 1) :
               /\ events[m] = Event("price_progress", events[n].index)
               /\ \A k \in (m + 1)..(n - 1) :
                      events[k].type \notin {"price_progress", "book_result", "book_skip"}
    /\ Ascending({"price_progress"})
    /\ Ascending({"book_result", "book_skip"})
    /\ Cardinality(Positions({"price_progress"})) <= Len(books_with_isbn)
    /\ \A n \in Positions({"done"}) : n = Len(events)
    /\ pc = "done" =>
           /\ events[Len(events)] = Event("done", 0)
           /\ detected # <<>> =>
                  /\ Cardinality(Positions({"isbn_progress"})) = Len(detected)
                  /\ Cardinality(Positions({"price_progress"})) = Len(books_with_isbn)
                  /\ Cardinality(Positions({"book_result", "book_skip"})) = Len(books_with_isbn)

\* A finished run over two detections, one resolved and one not, whose
\* resolved book got its book_result.
C14_Witness ==
    /\ pc = "done"
    /\ Len(detected) = 2
    /\ HasEvent("isbn_missing", 1)
    /\ HasEvent("isbn_found", 2)
    /\ HasEvent("book_result", 1)
    /\ Len(events) = 3 + 4 + 1 + 2 + 1

\* A finished run over two resolved books, one skipped.
C14_WitnessTwoBooks ==
    /\ pc = "done"
    /\ HasEvent("book_skip", 1)
    /\ HasEvent("book_result", 2)
    /\ Len(events) = 3 + 4 + 1 + 4 + 1

\* The purchase_price field of the request is there and float() raises
\* ValueError on it.
Unparseable(req) ==
    /\ req.purchase_price # None
    /\ PyFloat(Val(req.purchase_price)) = None

\* The image part of the request passes both checks of analyze().
ImageAccepted(req) ==
    /\ req.image # None
    /\ Val(req.image) # <<>>
    /\ allowed_file(Val(req.image))

\* C15 as stated: a request whose purchase_price cannot be parsed is
\* rejected before the pipeline starts; the detector is not called and no
\* status or progress event is yielded.
C15_UnparseablePriceRejected ==
    Unparseable(request) =>
        /\ pc \in {"request", "rejected"}
        /\ Positions({"status", "detected", "isbn_progress", "price_progress", "done"}) = {}

\* C15, amended: a request is rejected before the pipeline starts, with a
\* single 'error' event and nothing else, exactly when its image part is
\* missing or its file name is not allowed; a purchase_price that cannot be
\* parsed is replaced by 1.0 and the pipeline runs with it.
C15_PriceFallback ==
    pc # "request" =>
        /\ pc = "rejected" <=> ~ImageAccepted(request)
        /\ pc = "rejected" =>
               /\ events = <<Event("error", 0)>>
               /\ detected = <<>>
               /\ lookups = <<>>
               /\ probes = <<>>
        /\ pc # "rejected" =>
               /\ Unparseable(request) => purchase_price = 1
               /\ request.purchase_price = None => purchase_price = 1
               /\ \A p \in FloatTexts :
                      request.purchase_price = Some(p[1]) => purchase_price = p[2]
               /\ \A n \in 1..Len(profitable) : profitable[n].purchase_price = purchase_price

\* A run that finished with a BookEntry on a request whose purchase_price
\* is no number.
C15_Witness ==
    /\ Unparseable(request)
    /\ pc = "done"
    /\ Len(done.books) >= 1
    /\ done.books[1].purchase_price = 1

\* A request rejected for its file name.
C15_WitnessRejected ==
    /\ pc = "rejected"
    /\ request.image = Some(<<"shelf", "txt">>)

\* The detector has returned after two attempts neither of which could be
\* parsed.
RetryExhausted ==
    /\ pc = "detected"
    /\ attempts = <<"unparseable", "unparseable">>

C16_WitnessRetried ==
    /\ pc = "detected"
    /\ attempts = <<"unparseable", "books">>
    /\ Len(detected) = 2

\* --------------------------------------------------------- find_all_isbns
\* C17 as stated: find_all_isbns returns the empty list without a catalog
\* query whenever the title is empty, with or without an author.
C17_EmptyTitleNoQuery ==
    (rpc = "returned" /\ rTitle = "") =>
        /\ rResult.editions = <<>>
        /\ rResult.queries = <<>>

\* C17, amended: find_all_isbns returns the empty list without a catalog
\* query exactly when both the title and the author are empty; with an
\* empty title and an author it issues both queries on the author alone
\* and returns what they yield.
C17_NoTermNoQuery ==
    rpc = "returned" =>
        /\ (rTitle = "" /\ rAuthor = "") => rResult = NoLookup
        /\ (rTitle # "" \/ rAuthor # "") => Len(rResult.queries) = 2
        /\ \A n \in 1..Len(rResult.queries) :
               LET q == rResult.queries[n].q
               IN  /\ q # <<>>
                   /\ (\E k \in 1..Len(q) : q[k] = <<"intitle", rTitle>>) <=> rTitle # ""
                   /\ (\E k \in 1..Len(q) : q[k] = <<"inauthor", rAuthor>>) <=> rAuthor # ""
        /\ {CandIsbn(Candidates[c]) : c \in 1..Len(Candidates)} # {}
               => (rResult.editions = <<>> <=> (rTitle = "" /\ rAuthor = ""))

\* A call with an empty title and an author that returned an edition.
C17_Witness ==
    /\ rpc = "returned"
    /\ rTitle = ""
    /\ rAuthor = "a"
    /\ Len(rResult.editions) >= 1
    /\ Len(rResult.queries) = 2

\* A call without title and author, the catalog holding editions.
C17_WitnessNoTerm ==
    /\ rpc = "returned"
    /\ rTitle = ""
    /\ rAuthor = ""
    /\ Len(Candidates) >= 1

\* The pass that got resp failed: the request raised (0), the status is not
\* 200, or a record raised while it was read.
PassFailed(resp) == resp.status # 200 \/ ReadPrefix(resp.items) # resp.items

EditionIsbns(editions) == {editions[n].isbn : n \in 1..Len(editions)}

CandidateIsbns(items) ==
    {CandIsbn(SelectSeq(items, IsCandidate)[n]) : n \in 1..Len(SelectSeq(items, IsCandidate))}

\* C18: a failure inside one pass of find_all_isbns is not raised to the
\* caller and does not keep the other pass from running: the unrestricted
\* query is issued after the Dutch one whatever the Dutch pass came to, the
\* result holds what each pass read, and when both passes fail as a whole
\* the result is the empty list.
C18_PassFailureAbsorbed ==
    (rpc = "returned" /\ query_parts(rTitle, rAuthor) # <<>>) =>
        /\ ~rResult.raised
        /\ Len(rResult.queries) = 2
        /\ rResult.queries[1].langRestrict = Some("nl")
        /\ rResult.queries[2].langRestrict = None
        /\ EditionIsbns(rResult.editions)
               = CandidateIsbns(ReadOf(resp1)) \cup CandidateIsbns(ReadOf(resp2))
        /\ (resp1.status # 200 /\ resp2.status # 200) => rResult.editions = <<>>

\* The Dutch pass raised and the unrestricted pass brought an edition.
C18_Witness ==
    /\ rpc = "returned"
    /\ resp1.status = 0
    /\ resp2.status = 200
    /\ Len(rResult.editions) >= 1

\* The Dutch pass brought an edition and the unrestricted pass failed while
\* reading a record.
C18_WitnessSecondFails ==
    /\ rpc = "returned"
    /\ ~PassFailed(resp1)
    /\ resp2.status = 200
    /\ PassFailed(resp2)
    /\ Len(rResult.editions) >= 1

\* Both passes failed.
C18_WitnessBothFail ==
    /\ rpc = "returned"
    /\ rTitle = "T"
    /\ resp1.status = 500
    /\ resp2.status = 0
    /\ rResult.editions = <<>>

\* ------------------------------------------------------------- check_book
\* The answers of the latest check_book call do not amount to an offer: the
\* interest check failed (404, another status, a raised request, a body that
\* is no dict or signals no interest), or the price lookup was not issued,
\* failed or carried no price.
NoOffer(x) ==
    \/ ~SignalsInterest(x.interest)
    \/ ~x.price_issued
    \/ ~CarriesPrice(x.price)

\* C19: whatever the buy-back service answers to the interest check or the
\* price lookup (404, another non-200 status, a raised request, a body of
\* an unexpected shape), the probe of the edition ends as not interested
\* and the run goes on; no such answer ends the run with the 'error' event.
C19_FailedResponseAbsorbed ==
    /\ \A n \in 1..Len(probes) : ~probes[n].raised
    /\ (exchange # None /\ NoOffer(exchange[1])) =>
           /\ pc # "error"
           /\ Len(edition_results) >= 1
           /\ ~edition_results[Len(edition_results)].interested

\* The interest check answered 200 with a body that is a list, and the run
\* ended with the 'error' event.
C19_Witness ==
    /\ pc = "error"
    /\ err = "AttributeError"
    /\ exchange # None
    /\ exchange[1].interest = Http(200, InterestBody("list", FALSE, None))
    /\ events[Len(events)] = Event("error", 0)

\* The editions of the resolved books from book number b on, in the order
\* of the books and, within a book, of its edition list.
RECURSIVE FlatEditions(_, _)
FlatEditions(books, b) ==
    IF books = <<>> THEN <<>>
    ELSE [k \in 1..Len(Head(books).isbns) |-> [book |-> b, isbn |-> Head(books).isbns[k].isbn]]
             \o FlatEditions(Tail(books), b + 1)

BookEventSeen(b) == HasEvent("book_result", b) \/ HasEvent("book_skip", b)

\* C20: check_book is called once for each edition of each resolved book,
\* the books in resolved order and the editions of a book in the order
\* find_all_isbns returned them; all editions of a book are probed before
\* its book_result or book_skip event and before any edition of the next
\* book.
C20_ProbeOrder ==
    LET flat == FlatEditions(books_with_isbn, 1)
    IN  /\ Len(probes) <= Len(flat)
        /\ probes # <<>> => pc \in {"probe", "pricing", "done", "error"}
        /\ \A n \in 1..Len(probes) :
               /\ probes[n].book = flat[n].book
               /\ probes[n].isbn = flat[n].isbn
        /\ \A b \in 1..Len(books_with_isbn) :
               /\ BookEventSeen(b) => Cardinality(ProbesOf(b)) = Len(books_with_isbn[b].isbns)
               /\ (b > 1 /\ ProbesOf(b) # {}) => BookEventSeen(b - 1)
        /\ (pc = "done" /\ detected # <<>>) => Len(probes) = Len(flat)

\* A finished run over two resolved books of two editions each: four
\* probes.
C20_Witness ==
    /\ pc = "done"
    /\ Len(books_with_isbn) = 2
    /\ Len(books_with_isbn[1].isbns) = 2
    /\ Len(books_with_isbn[2].isbns) = 2
    /\ Len(probes) = 4

\* ------------------------------------------------- requests of one probe
\* C21: a check_book call sends exactly one interest-check request and at
\* most one price-lookup request; the price lookup is sent only after the
\* interest check answered with interest and a book id, and after the
\* interest check; no request is sent again when it fails.
C21_RequestsPerProbe ==
    exchange # None =>
        LET x == exchange[1]
            sent(kind) == Cardinality({n \in 1..Len(x.requests) : x.requests[n] = kind})
        IN  /\ sent("interest") = 1
            /\ sent("price") <= 1
            /\ Len(x.requests) = sent("interest") + sent("price")
            /\ x.requests[1] = "interest"
            /\ sent("price") = 1 <=>
                   (SignalsInterest(x.interest) /\ x.interest.body.book_id # None)
            /\ x.price_issued <=> sent("price") = 1

\* The interest check failed (status 500) and one request was sent.
C21_Witness ==
    /\ exchange # None
    /\ exchange[1].interest.status = 500
    /\ exchange[1].requests = <<"interest">>

\* Interest with a book id, and a price lookup that failed: two requests.
C21_WitnessPriceFailed ==
    /\ exchange # None
    /\ SignalsInterest(exchange[1].interest)
    /\ exchange[1].price.status = 500
    /\ exchange[1].requests = <<"interest", "price">>

\* ------------------------------------------- two requests served at once
\* What a run on an image of n books yields when it is served alone.
SoloEvents(n) ==
    ResolvedEvents(n)
        \o [k \in 1..(2 * n) |-> IF k % 2 = 1 THEN Event("price_progress", (k + 1) \div 2)
                                               ELSE Event("book_result", k \div 2)]
        \o <<Event("done", 0)>>

\* C22: two runs served at once are independent: each has its own limiter
\* state, its own lists, and ends with the events and the result it would
\* have had alone, however the steps of the other run fall between its own.
C22_RunsIndependent ==
    \A r \in RunIds :
        /\ runs[r].api.total_requests = 2 * runs[r].j
        /\ Len(runs[r].api.request_timestamps) = 2 * runs[r].j
        /\ runs[r].pc = "closed" =>
               /\ runs[r].events = SoloEvents(runs[r].image)
               /\ Len(runs[r].profitable) = runs[r].image

\* Both uploads got the same path, and run 1 ended with the result for
\* the image of run 2.
C22_Witness ==
    /\ runs[1].path = runs[2].path
    /\ runs[1].pc = "closed"
    /\ runs[1].events = SoloEvents(runs[2].image)

\* Both uploads got the same path, and run 2 found its file deleted.
C22_WitnessDeleted ==
    /\ runs[1].path = runs[2].path
    /\ runs[2].pc = "closed"
    /\ runs[2].events = <<Event("status", 1), Event("error", 0)>>

\* Under different paths each run ends as it would alone, and what each
\* run's own limiter counted is the requests of that run.
C22_IndependentUnderDistinctPaths ==
    runs[1].path # runs[2].path =>
        \A r \in RunIds :
            /\ runs[r].api.total_requests = 2 * runs[r].j
            /\ runs[r].pc = "closed" => runs[r].events = SoloEvents(runs[r].image)

\* ------------------------------------------------------- the 'done' event
\* C23: in the 'done' event summary.detected is the number of detections
\* the detector returned, summary.with_isbn the number of isbn_found
\* events, summary.profitable the number of book_result events and the
\* length of books; profitable <= with_isbn <= detected, and no detection
\* has two entries in books.
C23_SummaryCounts ==
    pc = "done" =>
        /\ done.summary.detected = Len(detected)
        /\ HasEvent("detected", done.summary.detected)
        /\ done.summary.with_isbn = CountEvents("isbn_found")
        /\ done.summary.profitable = CountEvents("book_result")
        /\ done.summary.profitable = Len(done.books)
        /\ done.summary.profitable <= done.summary.with_isbn
        /\ done.summary.with_isbn <= done.summary.detected
        /\ \A a \in 1..Len(done.books) : \A b \in 1..Len(done.books) :
               done.books[a].det = done.books[b].det => a = b
        /\ \A a \in 1..Len(done.books) : done.books[a].det \in 1..Len(detected)

\* Two detections, one resolved, none profitable.
C23_Witness ==
    /\ pc = "done"
    /\ done.summary = [detected |-> 2, with_isbn |-> 1, profitable |-> 0]

\* Two detections, both resolved, one profitable.
C23_WitnessOneEntry ==
    /\ pc = "done"
    /\ done.summary = [detected |-> 2, with_isbn |-> 2, profitable |-> 1]
    /\ Len(done.books) = 1

\* ---------------------------------------------------------- termination
Terminal == {Event("done", 0), Event("error", 0)}

\* C24: every run that starts, over its finite detections and edition
\* lists and with collaborators that return, comes to a terminal event,
\* 'done' or 'error', which is its last event.
C24_Terminates ==
    (pc = "start") ~> (/\ pc \in {"done", "error"}
                       /\ events # <<>>
                       /\ events[Len(events)] \in Terminal)

\* A run over two resolved books with two editions each came to 'done'.
C24_Witness ==
    /\ pc = "done"
    /\ Len(probes) = 4
    /\ events[Len(events)] = Event("done", 0)

\* The limiter's part of C24: a call of _wait_for_rate_limit sleeps at most
\* twice, a window at most and then rate_limit_delay at most, so it
\* returns within Window + rate_limit_delay and the two overshoots.
C24_WaitsBounded ==
    [][Len(released') > Len(released) =>
           /\ now' >= now
           /\ now' - now <= Window + rate_limit_delay + 2]_vars

\* ------------------------------------------------------------ the limiter
\* C25: every check_interest and get_price call passes the limiter once
\* before its request: total_requests grows by exactly 1 and one timestamp,
\* the release time, is appended to the window (after the stale ones were
\* dropped), whether the request then succeeds or fails; the clock passing
\* between calls counts nothing.
C25_OnePassPerCall ==
    [][IF waited'
       THEN /\ total_requests' = total_requests
            /\ request_timestamps' = request_timestamps
            /\ released' = released
       ELSE /\ total_requests' = total_requests + 1
            /\ Len(released') = Len(released) + 1
            /\ request_timestamps'
                   = Append(SelectSeq(request_timestamps, LAMBDA t : Fresh(now, t)),
                            released'[Len(released')])
            /\ last_request_time' = released'[Len(released')]
            /\ now' = released'[Len(released')]]_vars

\* Two calls were made, the second one failed, and both were counted.
C25_Witness ==
    /\ total_requests = 2
    /\ Len(released) = 2
    /\ Len(request_timestamps) = 2
    /\ api_return = None
    /\ ~waited

\* C26: on one instance, two consecutive requests are released at least
\* rate_limit_delay apart, also when the second one first slept for the
\* window cap.
C26_MinimumDelay ==
    \A k \in 1..(Len(released) - 1) :
        released[k + 1] - released[k] >= rate_limit_delay

\* Cap 2 and delay 2: the second request came 59 s after the first, the
\* third right after it; the third slept 1 s for the window and 1 s more
\* for the delay.
C26_Witness ==
    /\ max_requests_per_minute = 2
    /\ rate_limit_delay = 2
    /\ Len(released) >= 3
    /\ released[2] = released[1] + 59
    /\ released[3] = released[2] + 2
    /\ released[3] = released[1] + Window + 1

\* ------------------------------------------------------------ detections
\* C27: every detection _validate_books passes on has a non-empty title
\* and a confidence in [0.5, 1]: elements with an empty title or a
\* confidence below 0.5 are dropped, and none with a confidence above 1 is
\* passed on.
C27_TitleAndConfidence ==
    validated # None =>
        \A n \in 1..Len(Val(validated)) :
            /\ Val(validated)[n].title # ""
            /\ Val(validated)[n].confidence >= 5
            /\ Val(validated)[n].confidence <= 10

\* An element with confidence 1.5 was passed on.
C27_Witness ==
    /\ validated # None
    /\ raw = <<RawBook("dict", Some("T"), Some(15))>>
    /\ Val(validated) = <<[title |-> "T", confidence |-> 15]>>

\* What does hold: the detections passed on are the dict elements with a
\* non-empty stripped title and a confidence of at least 0.5 (0.8 when the
\* element has none), in the order of the array.
C27_FloorOnly ==
    validated # None =>
        LET kept == SelectSeq(raw, LAMBDA item :
                        item.kind = "dict" /\ TitleOf(item) # "" /\ ConfidenceOf(item) >= 5)
        IN  /\ Len(Val(validated)) = Len(kept)
            /\ \A n \in 1..Len(kept) :
                   /\ Val(validated)[n].title = TitleOf(kept[n])
                   /\ Val(validated)[n].title # ""
                   /\ Val(validated)[n].confidence = ConfidenceOf(kept[n])
                   /\ Val(validated)[n].confidence >= 5

\* ---------------------------------------------------------- missing token
\* The run is past the ISBN loop.
PastResolving == pc \notin {"request", "rejected", "start", "detected", "isbn"}

\* C28: without a buy-back token and with at least one detection, the run
\* resolves every detection, yields status(3) and then exactly one 'error'
\* event, and stops: check_book is never called, there is no book_result,
\* no book_skip and no 'done' event, also when no detection resolved to an
\* edition.
C28_MissingToken ==
    (~token /\ detected # <<>> /\ err = "" /\ PastResolving) =>
        /\ pc = "error"
        /\ i = Len(detected)
        /\ Len(lookups) = Len(detected)
        /\ \A n \in 1..Len(detected) :
               /\ HasEvent("isbn_progress", n)
               /\ HasEvent("isbn_found", n) \/ HasEvent("isbn_missing", n)
        /\ Len(events) >= 2
        /\ events[Len(events) - 1] = Event("status", 3)
        /\ events[Len(events)] = Event("error", 0)
        /\ CountEvents("error") = 1
        /\ CountEvents("status") = 3
        /\ Positions({"book_result", "book_skip", "price_progress", "done"}) = {}
        /\ probes = <<>>
        /\ j = 0
        /\ profitable = <<>>

\* No token, two detections of which one resolved: the run ended with the
\* 'error' event.
C28_Witness ==
    /\ ~token
    /\ pc = "error"
    /\ err = ""
    /\ Len(detected) = 2
    /\ Len(books_with_isbn) = 1
    /\ events[Len(events)] = Event("error", 0)

\* No token and no detection resolved: the same 'error' ending.
C28_WitnessNothingResolved ==
    /\ ~token
    /\ pc = "error"
    /\ err = ""
    /\ detected # <<>>
    /\ books_with_isbn = <<>>
    /\ events[Len(events)] = Event("error", 0)

C29_WitnessEmptyRun ==
    /\ filepath = "unlinked"
    /\ pc = "done"
    /\ detected = <<>>

C29_WitnessDone ==
    /\ filepath = "unlinked"
    /\ pc = "done"
    /\ Len(profitable) = 1

C29_WitnessException ==
    /\ filepath = "unlinked"
    /\ pc = "error"
    /\ err # ""

\* ------------------------------------------------- entry and its editions
\* The probes of book number b, in the order they were made.
ProbeSeqOf(b) == SelectSeq(probes, LAMBDA p : p.book = b)

\* C30: a BookEntry agrees with its own all_editions: entry.isbn is the
\* isbn of an interested element, entry.sell_price and entry.profit are
\* that element's, entry.sell_price is at least the sell_price of every
\* interested element, and all_editions holds every probed edition of the
\* book, interested or not, in the order find_all_isbns returned them.
C30_EntryMatchesEditions ==
    \A n \in 1..Len(profitable) :
        LET entry == profitable[n]
            eds == entry.all_editions
            book == books_with_isbn[entry.index]
        IN  /\ \E k \in 1..Len(eds) :
                   /\ eds[k].interested
                   /\ eds[k].isbn = entry.isbn
                   /\ Val(eds[k].sell_price) = entry.sell_price
                   /\ Val(eds[k].profit) = entry.profit
            /\ \A k \in 1..Len(eds) :
                   eds[k].interested => entry.sell_price >= Val(eds[k].sell_price)
            /\ Len(eds) = Len(book.isbns)
            /\ \A k \in 1..Len(eds) : eds[k].isbn = book.isbns[k].isbn
            /\ Len(ProbeSeqOf(entry.index)) = Len(eds)
            /\ \A k \in 1..Len(eds) :
                   /\ ProbeSeqOf(entry.index)[k].isbn = eds[k].isbn
                   /\ ProbeSeqOf(entry.index)[k].interested = eds[k].interested
            /\ entry.editions_checked = Len(eds)

\* An entry over two editions: the first is not bought, the second is the
\* one the entry reports.
C30_Witness ==
    \E n \in 1..Len(profitable) :
        /\ Len(profitable[n].all_editions) = 2
        /\ ~profitable[n].all_editions[1].interested
        /\ profitable[n].all_editions[2].interested
        /\ profitable[n].isbn = profitable[n].all_editions[2].isbn

\* An entry over two bought editions of different price: the dearer one,
\* the second, is reported.
C30_WitnessDearer ==
    \E n \in 1..Len(profitable) :
        /\ Len(profitable[n].all_editions) = 2
        /\ profitable[n].all_editions[1].interested
        /\ profitable[n].all_editions[2].interested
        /\ Val(profitable[n].all_editions[1].sell_price) < Val(profitable[n].all_editions[2].sell_price)
        /\ profitable[n].isbn = profitable[n].all_editions[2].isbn

=============================================================================
